---------------------------- MODULE Spec2Model ----------------------------
(***************************************************************************)
(* Model of the supply & market analysis pipeline of                       *)
(* Backend/supply_market_services.py: the five scoring stages              *)
(* (CostForecastService, EarlyWarningService, LocalProductionService,      *)
(* CompetitiveHealthService, StrategicSummaryService), the coordinator     *)
(* SupplyMarketDashboardService.get_dashboard_data and the dashboard       *)
(* route of Backend/supply_market_routes.py.                               *)
(*                                                                         *)
(* Python floats are IEEE-754 binary64.  The stages add, multiply, divide, *)
(* compare and round them, and several results depend on the rounding of   *)
(* those operations (0.2 + 0.4 is 0.6000000000000001, not 0.6), so the     *)
(* model keeps every float as the exact dyadic rational it denotes and     *)
(* rounds each operation to 53 bits, ties to even, as the hardware does.   *)
(***************************************************************************)
EXTENDS Integers, Sequences, FiniteSets, TLC

(***************************************************************************)
(* Natural numbers of arbitrary size: little-endian sequences of limbs in  *)
(* radix 2^15, without leading zero limbs; <<>> is zero.  They carry the   *)
(* 53-bit significands (and their 106-bit products) that do not fit the    *)
(* 32-bit integers of the model checker.                                   *)
(***************************************************************************)
Min(a, b) == IF a <= b THEN a ELSE b

Max(a, b) == IF a >= b THEN a ELSE b

LimbBits == 15

Base == 2^LimbBits

Limb(n, i) == IF i <= Len(n) THEN n[i] ELSE 0

RECURSIVE BStrip(_)
BStrip(n) ==
    IF n = <<>> THEN n
    ELSE IF n[Len(n)] = 0 THEN BStrip(SubSeq(n, 1, Len(n) - 1)) ELSE n

RECURSIVE BFromInt(_)
BFromInt(k) == IF k = 0 THEN <<>> ELSE <<k % Base>> \o BFromInt(k \div Base)

RECURSIVE BAddRec(_, _, _, _)
BAddRec(a, b, i, c) ==
    IF i > Len(a) /\ i > Len(b)
    THEN (IF c = 0 THEN <<>> ELSE <<c>>)
    ELSE LET s == Limb(a, i) + Limb(b, i) + c
         IN  <<s % Base>> \o BAddRec(a, b, i + 1, s \div Base)

BAdd(a, b) == BAddRec(a, b, 1, 0)

\* a - b for a >= b
RECURSIVE BSubRec(_, _, _, _)
BSubRec(a, b, i, borrow) ==
    IF i > Len(a) THEN <<>>
    ELSE LET s == a[i] - Limb(b, i) - borrow
         IN  IF s < 0 THEN <<s + Base>> \o BSubRec(a, b, i + 1, 1)
                      ELSE <<s>> \o BSubRec(a, b, i + 1, 0)

BSub(a, b) == BStrip(BSubRec(a, b, 1, 0))

\* -1, 0 or 1 as a < b, a = b or a > b
RECURSIVE BCmpRec(_, _, _)
BCmpRec(a, b, i) ==
    IF i = 0 THEN 0
    ELSE IF a[i] < b[i] THEN -1
    ELSE IF a[i] > b[i] THEN 1
    ELSE BCmpRec(a, b, i - 1)

BCmp(a, b) ==
    IF Len(a) < Len(b) THEN -1
    ELSE IF Len(a) > Len(b) THEN 1
    ELSE BCmpRec(a, b, Len(a))

\* a * k for a limb-sized k (0 <= k <= Base)
RECURSIVE BMulLimbRec(_, _, _, _)
BMulLimbRec(a, k, i, c) ==
    IF i > Len(a)
    THEN (IF c = 0 THEN <<>> ELSE <<c>>)
    ELSE LET s == a[i] * k + c
         IN  <<s % Base>> \o BMulLimbRec(a, k, i + 1, s \div Base)

BMulLimb(a, k) == IF k = 0 THEN <<>> ELSE BMulLimbRec(a, k, 1, 0)

BShlLimbs(a, n) == IF a = <<>> THEN a ELSE [i \in 1..n |-> 0] \o a

RECURSIVE BMulRec(_, _, _)
BMulRec(a, b, j) ==
    IF j > Len(b) THEN <<>>
    ELSE BAdd(BShlLimbs(BMulLimb(a, b[j]), j - 1), BMulRec(a, b, j + 1))

BMul(a, b) == BMulRec(a, b, 1)

\* a * 2^k
BShl(a, k) == BShlLimbs(BMulLimb(a, 2^(k % LimbBits)), k \div LimbBits)

\* floor(a / 2^k)
BShr(a, k) ==
    LET drop == k \div LimbBits
        r    == k % LimbBits
        n    == Len(a) - drop
    IN  IF n <= 0 THEN <<>>
        ELSE BStrip([i \in 1..n |->
                 (a[i + drop] \div 2^r)
                 + (Limb(a, i + drop + 1) % 2^r) * 2^(LimbBits - r)])

\* bit i of a, bit 0 the least significant
BBit(a, i) == (Limb(a, (i \div LimbBits) + 1) \div 2^(i % LimbBits)) % 2

RECURSIVE BitLenSmall(_)
BitLenSmall(k) == IF k = 0 THEN 0 ELSE 1 + BitLenSmall(k \div 2)

BBitLen(a) ==
    IF a = <<>> THEN 0
    ELSE LimbBits * (Len(a) - 1) + BitLenSmall(a[Len(a)])

\* a mod 2^k = 0
BLowZero(a, k) == BShl(BShr(a, k), k) = a

\* the number of trailing zero bits of a > 0, limb by limb and then bit by bit
RECURSIVE TrailingZerosSmall(_)
TrailingZerosSmall(k) == IF k % 2 = 1 THEN 0 ELSE 1 + TrailingZerosSmall(k \div 2)

RECURSIVE BTrailingZeros(_, _)
BTrailingZeros(a, i) ==
    IF a[i] = 0 THEN LimbBits + BTrailingZeros(a, i + 1)
    ELSE TrailingZerosSmall(a[i])

\* the largest q in lo..hi with q * d <= r, given lo * d <= r
RECURSIVE QuotientDigit(_, _, _, _)
QuotientDigit(r, d, lo, hi) ==
    IF lo = hi THEN lo
    ELSE LET mid == (lo + hi + 1) \div 2
         IN  IF BCmp(BMulLimb(d, mid), r) <= 0
             THEN QuotientDigit(r, d, mid, hi)
             ELSE QuotientDigit(r, d, lo, mid - 1)

\* <<floor(n / d), n mod d>> for d > 0, by long division from limb i down; q is
\* built little-endian, r stays below d.  The quotient digit lies between the
\* two estimates that the leading limbs of r2 and d give.
RECURSIVE BDivModRec(_, _, _, _, _)
BDivModRec(n, d, i, q, r) ==
    IF i = 0 THEN <<BStrip(q), r>>
    ELSE LET r2  == BStrip(<<n[i]>> \o r)
             L   == Len(d)
             top == Limb(r2, L + 1) * Base + Limb(r2, L)
             qd  == IF L = 1 THEN top \div d[1]
                    ELSE QuotientDigit(r2, d, top \div (d[L] + 1),
                                       Min(Base - 1, top \div d[L]))
             r3  == BSub(r2, BMulLimb(d, qd))
         IN  BDivModRec(n, d, i - 1, <<qd>> \o q, r3)

BDivMod(n, d) == BDivModRec(n, d, Len(n), <<>>, <<>>)

(***************************************************************************)
(* binary64 values.  A finite float is the record [neg, m, e] denoting     *)
(* (-1)^neg * m * 2^e with m odd (so that equal values are equal records); *)
(* zero is Zero.  Every operation computes the exact result and rounds it  *)
(* to 53 significant bits, ties to even.  The values of the pipeline stay  *)
(* far from the overflow and subnormal ranges, which are not modelled, and *)
(* the sign of a zero is not kept.                                         *)
(***************************************************************************)
Precision == 53

Zero == [neg |-> FALSE, m |-> <<>>, e |-> 0]

DNorm(neg, m, e) ==
    IF m = <<>> THEN Zero
    ELSE LET tz == BTrailingZeros(m, 1)
         IN  [neg |-> neg, m |-> BShr(m, tz), e |-> e + tz]

\* floor(m / 2^k) rounded to nearest, ties to even, for k >= 1
BRoundShr(m, k) ==
    LET q    == BShr(m, k)
        half == BBit(m, k - 1) = 1
        rest == ~BLowZero(m, k - 1)
        up   == half /\ (rest \/ BBit(q, 0) = 1)
    IN  IF up THEN BAdd(q, <<1>>) ELSE q

RoundD(neg, m, e) ==
    LET L == BBitLen(m)
    IN  IF L <= Precision THEN DNorm(neg, m, e)
        ELSE DNorm(neg, BRoundShr(m, L - Precision), e + (L - Precision))

FromInt(k) == DNorm(k < 0, BFromInt(IF k < 0 THEN -k ELSE k), 0)

FNeg(x) == IF x = Zero THEN Zero ELSE [x EXCEPT !.neg = ~x.neg]

FAdd(x, y) ==
    LET e == Min(x.e, y.e)
        a == BShl(x.m, x.e - e)
        b == BShl(y.m, y.e - e)
        c == BCmp(a, b)
    IN  IF x.neg = y.neg THEN RoundD(x.neg, BAdd(a, b), e)
        ELSE IF c = 0 THEN Zero
        ELSE IF c > 0 THEN RoundD(x.neg, BSub(a, b), e)
        ELSE RoundD(y.neg, BSub(b, a), e)

FSub(x, y) == FAdd(x, FNeg(y))

FMul(x, y) ==
    IF x = Zero \/ y = Zero THEN Zero
    ELSE RoundD(x.neg # y.neg, BMul(x.m, y.m), x.e + y.e)

\* x / y for y # Zero: 56 or more quotient bits and a sticky bit, then rounded
FDiv(x, y) ==
    IF x = Zero THEN Zero
    ELSE LET t  == Max(0, Precision + 3 + BBitLen(y.m) - BBitLen(x.m))
             qr == BDivMod(BShl(x.m, t), y.m)
             m  == BAdd(BMulLimb(qr[1], 2), IF qr[2] = <<>> THEN <<>> ELSE <<1>>)
         IN  RoundD(x.neg # y.neg, m, x.e - y.e - t - 1)

\* -1, 0 or 1 as x < y, x = y or x > y
FCmp(x, y) ==
    LET e == Min(x.e, y.e)
        c == BCmp(BShl(x.m, x.e - e), BShl(y.m, y.e - e))
    IN  IF x.neg # y.neg THEN (IF x.neg THEN -1 ELSE 1)
        ELSE IF x.neg THEN -c ELSE c

FLt(x, y) == FCmp(x, y) < 0

FLe(x, y) == FCmp(x, y) <= 0

FGt(x, y) == FCmp(x, y) > 0

FGe(x, y) == FCmp(x, y) >= 0

FMin(x, y) == IF FLt(y, x) THEN y ELSE x

FMax(x, y) == IF FGt(y, x) THEN y ELSE x

\* the float a decimal literal n/d denotes (d a power of ten): the nearest one
Dec(n, d) == FDiv(FromInt(n), FromInt(d))

\* Python's round(x, nd) of a float: the exact value rounded half-even to nd
\* decimals, then the float nearest to that decimal
PyRound(x, nd) ==
    IF x.e >= 0 THEN x
    ELSE LET h == BRoundShr(BMul(x.m, BFromInt(10^nd)), -x.e)
         IN  FDiv(DNorm(x.neg, h, 0), FromInt(10^nd))

\* numpy's round of a float64 to nd decimals: rint(x * 10^nd) / 10^nd
NpRound(x, nd) == FDiv(PyRound(FMul(x, FromInt(10^nd)), 0), FromInt(10^nd))

(***************************************************************************)
(* The float literals of the services: each is the float nearest to the    *)
(* decimal written in the source.                                          *)
(***************************************************************************)
FNeg100 == FromInt(-100)

FNeg50 == FromInt(-50)

F0_05 == Dec(5, 100)

F0_2 == Dec(2, 10)

F0_20 == Dec(20, 100)

F0_3 == Dec(3, 10)

F0_35 == Dec(35, 100)

F0_4 == Dec(4, 10)

F0_45 == Dec(45, 100)

F0_5 == Dec(5, 10)

F0_6 == Dec(6, 10)

F0_65 == Dec(65, 100)

F0_7 == Dec(7, 10)

F0_8 == Dec(8, 10)

F0_9 == Dec(9, 10)

F0_95 == Dec(95, 100)

F1 == FromInt(1)

F1_05 == Dec(105, 100)

F1_15 == Dec(115, 100)

F1_2 == Dec(12, 10)

F2 == FromInt(2)

F5 == FromInt(5)

F10 == FromInt(10)

F15 == FromInt(15)

F20 == FromInt(20)

F30 == FromInt(30)

F40 == FromInt(40)

F50 == FromInt(50)

F95 == FromInt(95)

F100 == FromInt(100)

F105 == FromInt(105)

(***************************************************************************)
(* Text.  The only operation on text that decides a result is the          *)
(* substring test 'Shipping' in main_cost_driver, so the cost-driver       *)
(* labels are sequences of characters and the test is computed on them.    *)
(***************************************************************************)
\* Python's `sub in s` for strings
StrContains(sub, s) ==
    \E i \in 1..(Len(s) - Len(sub) + 1) : SubSeq(s, i, i + Len(sub) - 1) = sub

Str_Shipping == <<"S", "h", "i", "p", "p", "i", "n", "g">>

\* the keys of the drivers dict of CostForecastService.predict, in insertion order
Anomaly_Price_Global == <<"A", "n", "o", "m", "a", "l", "y", "_", "P", "r", "i", "c", "e", "_", "G", "l", "o", "b", "a", "l">>

Index_Cost_Shipping == <<"I", "n", "d", "e", "x", "_", "C", "o", "s", "t", "_", "S", "h", "i", "p", "p", "i", "n", "g">>

Premium_Insurance_Risk_War == <<"P", "r", "e", "m", "i", "u", "m", "_", "I", "n", "s", "u", "r", "a", "n", "c", "e", "_", "R", "i", "s", "k", "_", "W", "a", "r">>

Index_Stress_Chain_Supply == <<"I", "n", "d", "e", "x", "_", "S", "t", "r", "e", "s", "s", "_", "C", "h", "a", "i", "n", "_", "S", "u", "p", "p", "l", "y">>

\* the default of cost_forecast.get('main_cost_driver', '')
(***************************************************************************)
(* The outcome of a call: a returned value or a raised exception.          *)
(***************************************************************************)
NoValue == [none |-> TRUE]

Return(v) == [kind |-> "return", value |-> v, exc |-> "-"]

Raise(e) == [kind |-> "raise", value |-> NoValue, exc |-> e]

(***************************************************************************)
(* StrategicSummaryService.generate                                        *)
(***************************************************************************)
\* GlobalRisk with the increments subtracted (a sign slip): min(1.0, .) does not
\* bound the score from below
GlobalRiskSubtracting(cost_forecast, early_warning) ==
    LET r0 == F0_3
        r1 == IF cost_forecast.trend_direction = "rising"
              THEN FSub(r0, F0_3) ELSE r0
        r2 == IF early_warning.supply_alert_level = "High"
              THEN FSub(r1, F0_2) ELSE r1
    IN  FMin(F1, r2)

\* global_risk: 0.3, += 0.3 if the trend is rising, += 0.2 if the alert is High
GlobalRisk(cost_forecast, early_warning) ==
    LET r0 == F0_3
        r1 == IF cost_forecast.trend_direction = "rising"
              THEN FAdd(r0, F0_3) ELSE r0
        r2 == IF early_warning.supply_alert_level = "High"
              THEN FAdd(r1, F0_2) ELSE r1
    IN  FMin(F1, r2)

\* local_risk: 0.2, += 0.4 if the outlook is Weak, elif Medium += 0.2
LocalRisk(local_production) ==
    LET r0 == F0_2
        r1 == IF local_production.production_outlook = "Weak"
              THEN FAdd(r0, F0_4)
              ELSE IF local_production.production_outlook = "Medium"
              THEN FAdd(r0, F0_2) ELSE r0
    IN  FMin(F1, r1)

\* LogisticRisk with the driver compared for equality instead of searched
LogisticRiskExactMatch(cost_forecast, competitive_health) ==
    LET r0 == F0_2
        r1 == IF cost_forecast.main_cost_driver = Str_Shipping
              THEN FAdd(r0, F0_3) ELSE r0
        r2 == IF competitive_health.margin_pressure_level \in {"High", "Critical"}
              THEN FAdd(r1, F0_2) ELSE r1
    IN  FMin(F1, r2)

\* logistic_risk: 0.2, += 0.3 if 'Shipping' in the driver, += 0.2 if the margin
\* pressure is High or Critical
LogisticRisk(cost_forecast, competitive_health) ==
    LET r0 == F0_2
        r1 == IF StrContains(Str_Shipping, cost_forecast.main_cost_driver)
              THEN FAdd(r0, F0_3) ELSE r0
        r2 == IF competitive_health.margin_pressure_level \in {"High", "Critical"}
              THEN FAdd(r1, F0_2) ELSE r1
    IN  FMin(F1, r2)

\* max(risks, key=risks.get) over the dict's keys in insertion order: the first
\* key whose value no later key exceeds
RECURSIVE MaxByKey(_, _, _)
MaxByKey(items, i, best) ==
    IF i > Len(items) THEN best
    ELSE MaxByKey(items, i + 1,
                  IF FGt(items[i].val, best.val) THEN items[i] ELSE best)

DominantRisk(global_risk, local_risk, logistic_risk) ==
    LET risks == << [key |-> "Global", val |-> global_risk],
                    [key |-> "Local", val |-> local_risk],
                    [key |-> "Logistic", val |-> logistic_risk] >>
    IN  MaxByKey(risks, 2, risks[1]).key

\* Recommendation with the two Buy Now conditions tested first, as one rule
RecommendationBuyFirst(cost_forecast, early_warning, business) ==
    IF \/ /\ early_warning.supply_alert_level = "High"
          /\ business.current_inventory_days < 30
       \/ /\ cost_forecast.trend_direction = "rising"
          /\ business.urgency_level = "high"
    THEN "Buy Now"
    ELSE IF early_warning.supply_alert_level = "High"
    THEN "Diversify Suppliers"
    ELSE "Delay"

Recommendation(cost_forecast, early_warning, business) ==
    IF early_warning.supply_alert_level = "High"
    THEN IF business.current_inventory_days < 30
         THEN "Buy Now" ELSE "Diversify Suppliers"
    ELSE IF cost_forecast.trend_direction = "rising"
    THEN IF business.urgency_level = "high" THEN "Buy Now" ELSE "Delay"
    ELSE "Delay"

\* confidence = min(1.0, reliability_score * 0.5 + 0.4)
Confidence(local_production) ==
    FMin(F1, FAdd(FMul(local_production.reliability_score, F0_5),
                   F0_4))

\* str.capitalize() and str.lower() on the values the templates are filled with
Capitalize(w) ==
    CASE w = "rising" -> "Rising" [] w = "falling" -> "Falling"
      [] w = "stable" -> "Stable" [] OTHER -> w

Lower(w) ==
    CASE w = "Weak" -> "weak" [] w = "Medium" -> "medium" [] w = "Good" -> "good"
      [] w = "Advantaged" -> "advantaged" [] w = "Neutral" -> "neutral"
      [] w = "Disadvantaged" -> "disadvantaged" [] OTHER -> w

\* The f-string of each recommendation, as its pieces.  The longest instance
\* (Diversify Suppliers, position Disadvantaged) has 77 characters, so the
\* slice [:200] keeps every explanation whole.
Explanation(recommendation, cost_forecast, local_production, competitive_health) ==
    IF recommendation = "Buy Now"
    THEN << Capitalize(cost_forecast.trend_direction), " costs with ",
            Lower(local_production.production_outlook),
            " local production. Secure supply before Q2 surge." >>
    ELSE IF recommendation = "Delay"
    THEN << "Costs ", cost_forecast.trend_direction,
            ". Low alert level. Wait for better pricing opportunities." >>
    ELSE << "High supply risk with ",
            Lower(competitive_health.competitive_position),
            " position. Consider alternative suppliers." >>

\* dates are day numbers; today + timedelta(days=k) is today + k
ActionItems(recommendation, day) ==
    IF recommendation = "Buy Now"
    THEN << [priority |-> 1, action |-> "Lock shipping contracts",
             deadline |-> day + 7],
            [priority |-> 2, action |-> "Increase inventory to 45 days",
             deadline |-> day + 14] >>
    ELSE IF recommendation = "Diversify Suppliers"
    THEN << [priority |-> 1, action |-> "Contact alternative suppliers",
             deadline |-> day + 5] >>
    ELSE << [priority |-> 1, action |-> "Monitor market conditions weekly",
             deadline |-> day + 30] >>

\* the result generate builds from the scores, the recommendation and the
\* confidence it has computed
StrategicSummary(commodity_id, api_outputs, global_risk, local_risk, logistic_risk, recommendation, confidence, day) ==
    [data |->
       [commodity_id |-> commodity_id,
        dominant_risk_type |-> DominantRisk(global_risk, local_risk,
                                            logistic_risk),
        recommendation |-> recommendation,
        confidence_level |-> PyRound(confidence, 2),
        explanation_text |-> Explanation(recommendation,
                                         api_outputs.cost_forecast,
                                         api_outputs.local_production,
                                         api_outputs.competitive_health),
        action_items |-> ActionItems(recommendation, day),
        risk_breakdown |->
          [global_risk_score |-> PyRound(global_risk, 2),
           local_risk_score |-> PyRound(local_risk, 2),
           logistic_risk_score |-> PyRound(logistic_risk, 2)]],
     metadata |->
       [decision_timestamp |-> day,
        valid_until |-> day + 1,
        model_confidence |-> PyRound(confidence, 2)]]

\* generate(commodity_id, api_outputs, business_context) on day `day`
\* (date.today(); datetime.utcnow() is kept to the day)
Generate(commodity_id, api_outputs, business_context, day) ==
    Return(StrategicSummary(
             commodity_id, api_outputs,
             GlobalRisk(api_outputs.cost_forecast, api_outputs.early_warning),
             LocalRisk(api_outputs.local_production),
             LogisticRisk(api_outputs.cost_forecast,
                          api_outputs.competitive_health),
             Recommendation(api_outputs.cost_forecast,
                            api_outputs.early_warning, business_context),
             Confidence(api_outputs.local_production),
             day))

(***************************************************************************)
(* numpy on float64: np.mean of a list and round() of a numpy scalar.      *)
(***************************************************************************)
\* res += a[i] for i = from, ..., to
RECURSIVE SumFrom(_, _, _, _)
SumFrom(a, from, to, res) ==
    IF from > to THEN res ELSE SumFrom(a, from + 1, to, FAdd(res, a[from]))

\* lane j of the unrolled loop: a[j] + a[j + 8] + a[j + 16] + ... below m
RECURSIVE LaneSum(_, _, _, _)
LaneSum(a, i, m, res) ==
    IF i > m THEN res ELSE LaneSum(a, i + 8, m, FAdd(res, a[i]))

\* numpy's pairwise summation of a block of at most 128 values: a plain loop
\* below 8 values, otherwise 8 partial sums combined pairwise and the rest added
NpSum(a) ==
    IF Len(a) < 8 THEN SumFrom(a, 1, Len(a), Zero)
    ELSE LET m == Len(a) - (Len(a) % 8)
             r == [j \in 1..8 |-> LaneSum(a, j + 8, m, a[j])]
             res == FAdd(FAdd(FAdd(r[1], r[2]), FAdd(r[3], r[4])),
                         FAdd(FAdd(r[5], r[6]), FAdd(r[7], r[8])))
         IN  SumFrom(a, m + 1, Len(a), res)

NpMean(a) == FDiv(NpSum(a), FromInt(Len(a)))

\* round(x, nd) of a numpy.float64 (np) or of a Python float
RoundAs(np, x, nd) == IF np THEN NpRound(x, nd) ELSE PyRound(x, nd)

(***************************************************************************)
(* Dates are proleptic Gregorian ordinals, as date.toordinal() numbers     *)
(* them; date + timedelta raises OverflowError beyond date.max.            *)
(***************************************************************************)
MaxOrdinal == 3652059

(***************************************************************************)
(* CostForecastService.predict                                             *)
(***************************************************************************)
\* the while loop that fills dates; ok is FALSE when current += timedelta(30)
\* leaves the range of date
RECURSIVE DateRange(_, _)
DateRange(current, end_date) ==
    IF current > end_date THEN [ok |-> TRUE, dates |-> <<>>]
    ELSE IF current + 30 > MaxOrdinal THEN [ok |-> FALSE, dates |-> <<>>]
    ELSE LET rest == DateRange(current + 30, end_date)
         IN  [ok |-> rest.ok, dates |-> <<current>> \o rest.dates]

\* base_costs.get(commodity_id, 600)
BaseCost(commodity_id) ==
    CASE commodity_id = "wheat" -> 550
      [] commodity_id = "sugar" -> 750
      [] commodity_id = "oil" -> 1500
      [] OTHER -> 600

FAbs(x) == IF x.neg THEN FNeg(x) ELSE x

\* the cost of step i (from 0) with the draw eps of np.random.normal(0, 20)
PredictedCost(base_cost, market_indicators, i, eps) ==
    LET c0 == FromInt(base_cost)
        c1 == FAdd(c0, FMul(market_indicators.global_price_anomaly, F0_8))
        c2 == FAdd(c1, FMul(market_indicators.shipping_index, F2))
        c3 == FAdd(c2, FMul(market_indicators.insurance_risk_index, F100))
        c4 == FAdd(c3, FMul(market_indicators.supply_chain_stress_index, F1_2))
        c5 == FAdd(c4, FromInt(i * 5))
    IN  FAdd(c5, eps)

\* max(drivers, key=drivers.get)
MainDriver(market_indicators) ==
    LET drivers ==
          << [key |-> Anomaly_Price_Global,
              val |-> FAbs(market_indicators.global_price_anomaly)],
             [key |-> Index_Cost_Shipping,
              val |-> market_indicators.shipping_index],
             [key |-> Premium_Insurance_Risk_War,
              val |-> FMul(market_indicators.insurance_risk_index, F100)],
             [key |-> Index_Stress_Chain_Supply,
              val |-> market_indicators.supply_chain_stress_index] >>
    IN  MaxByKey(drivers, 2, drivers[1]).key

\* the confidence of step i without its floor of 0.6
StepConfidenceUnclamped(i) ==
    FSub(F0_95, FMul(FromInt(i), F0_05))

\* max(0.6, 0.95 - (i * 0.05))
StepConfidence(i) ==
    FMax(F0_6, FSub(F0_95, FMul(FromInt(i), F0_05)))

TrendDirection(first_cost, last_cost) ==
    IF FGt(last_cost, FMul(first_cost, F1_05)) THEN "rising"
    ELSE IF FLt(last_cost, FMul(first_cost, F0_95)) THEN "falling"
    ELSE "stable"

\* min(costs) and max(costs) of a non-empty list
RECURSIVE ListMin(_, _, _)
ListMin(a, i, best) ==
    IF i > Len(a) THEN best
    ELSE ListMin(a, i + 1, IF FLt(a[i], best) THEN a[i] ELSE best)

RECURSIVE ListMax(_, _, _)
ListMax(a, i, best) ==
    IF i > Len(a) THEN best
    ELSE ListMax(a, i + 1, IF FGt(a[i], best) THEN a[i] ELSE best)

\* the summary of predict over costs = [p['predicted_landed_cost_usd'] ...]
PredictSummary(costs) ==
    [avg_cost |-> NpRound(NpMean(costs), 2),
     min_cost |-> PyRound(ListMin(costs, 2, costs[1]), 2),
     max_cost |-> PyRound(ListMax(costs, 2, costs[1]), 2),
     trend_direction |-> TrendDirection(costs[1], costs[Len(costs)])]

\* the dict predict returns for its list of predictions
PredictResult(commodity_id, predictions) ==
    [commodity_id |-> commodity_id,
     predictions |-> predictions,
     summary |->
       PredictSummary([k \in 1..Len(predictions) |->
                         predictions[k].predicted_landed_cost_usd])]

\* the for loop over dates that fills predictions
Predictions(commodity_id, dates, market_indicators, noise) ==
    [k \in 1..Len(dates) |->
       [date |-> dates[k],
        predicted_landed_cost_usd |->
          PyRound(PredictedCost(BaseCost(commodity_id), market_indicators,
                                k - 1, noise[k]), 2),
        confidence_score |-> PyRound(StepConfidence(k - 1), 2),
        main_cost_driver |-> MainDriver(market_indicators)]]

\* if not dates: dates = [start_date]
DatesOrStart(dates, start_date) ==
    IF dates = <<>> THEN <<start_date>> ELSE dates

\* predict from the filled date range on
PredictOver(commodity_id, start_date, range, market_indicators, noise) ==
    IF ~range.ok THEN Raise("OverflowError")
    ELSE Return(PredictResult(commodity_id,
                              Predictions(commodity_id,
                                          DatesOrStart(range.dates, start_date),
                                          market_indicators, noise)))

\* predict with a check of the range that rejects an end before the start
PredictRejectingRange(commodity_id, start_date, end_date, market_indicators, noise) ==
    IF end_date < start_date THEN Raise("InvalidRange")
    ELSE PredictOver(commodity_id, start_date,
                     DateRange(start_date, end_date), market_indicators, noise)

\* predict(commodity_id, start_date, end_date, market_indicators); noise[i + 1]
\* is the draw of np.random.normal(0, 20) at step i
Predict(commodity_id, start_date, end_date, market_indicators, noise) ==
    PredictOver(commodity_id, start_date, DateRange(start_date, end_date),
                market_indicators, noise)

\* the number of draws predict takes from np.random.normal for a date range
NumSteps(start_date, end_date) ==
    Len(DatesOrStart(DateRange(start_date, end_date).dates, start_date))

(***************************************************************************)
(* EarlyWarningService.analyze                                             *)
(***************************************************************************)
NoThresholds == [none |-> TRUE, medium_pct |-> Zero, high_pct |-> Zero]

\* thresholds = {'medium_pct': 10.0, 'high_pct': 15.0} when None is given
DefaultThresholds(thresholds) ==
    IF thresholds.none
    THEN [none |-> FALSE, medium_pct |-> F10, high_pct |-> F15]
    ELSE thresholds

\* max(predicted_costs, key=lambda x: x['cost']) of a non-empty list
RECURSIVE PeakOf(_, _, _)
PeakOf(predicted_costs, i, best) ==
    IF i > Len(predicted_costs) THEN best
    ELSE PeakOf(predicted_costs, i + 1,
                IF FGt(predicted_costs[i].cost, best.cost)
                THEN predicted_costs[i] ELSE best)

\* the classification with > in the place of >=
AlertLevelStrict(increase_pct, thresholds) ==
    IF FGt(increase_pct, thresholds.high_pct) THEN "High"
    ELSE IF FGt(increase_pct, thresholds.medium_pct) THEN "Medium"
    ELSE "Low"

AlertLevel(increase_pct, thresholds) ==
    IF FGe(increase_pct, thresholds.high_pct) THEN "High"
    ELSE IF FGe(increase_pct, thresholds.medium_pct) THEN "Medium"
    ELSE "Low"

RecommendedAction(alert_level) ==
    CASE alert_level = "High" -> "Consider immediate procurement"
      [] alert_level = "Medium" -> "Monitor closely, prepare contingency plans"
      [] OTHER -> "Continue normal operations"

TriggerReason(increase_pct) ==
    IF FGt(increase_pct, F20)
    THEN "Severe cost deviation detected - multiple risk factors converging"
    ELSE IF FGt(increase_pct, F10)
    THEN "Shipping index surge combined with global price anomaly"
    ELSE "Normal market fluctuation within expected range"

\* the days to the peak without the floor of 0
DaysUntilPeakSigned(peak_date, day) == peak_date - day

\* max(0, (peak_date - today).days)
DaysUntilPeak(peak_date, day) == Max(0, peak_date - day)

\* analyze(commodity_id, predicted_costs, historical_baseline, thresholds) on
\* day `day`.  np says that the baseline is a numpy.float64 (the coordinator's)
\* and not a Python float (the route's): then increase_pct is a numpy scalar
\* too, round() of it is numpy's, and a zero baseline gives inf or nan with a
\* warning instead of ZeroDivisionError.  The model has no inf and no nan: it
\* marks that outcome, which no modelled caller reaches.  The dates of the
\* series are date objects (the strptime branch is for str dates, which
\* neither the route nor the coordinator passes).
EarlyWarningAnalyze(commodity_id, predicted_costs, historical_baseline, thresholds, np, day) ==
    LET th           == DefaultThresholds(thresholds)
        peak         == PeakOf(predicted_costs, 2, predicted_costs[1])
        baseline     == historical_baseline.avg_cost_90d
        increase_pct == FMul(FDiv(FSub(peak.cost, baseline), baseline),
                             F100)
        alert_level  == AlertLevel(increase_pct, th)
    IN  IF predicted_costs = <<>> THEN Raise("ValueError")
        ELSE IF baseline = Zero
        THEN Raise(IF np THEN "non-finite" ELSE "ZeroDivisionError")
        ELSE Return(
          [commodity_id |-> commodity_id,
           supply_alert_level |-> alert_level,
           expected_increase_percentage |-> RoundAs(np, increase_pct, 1),
           trigger_reason |-> TriggerReason(increase_pct),
           alert_details |->
             [peak_date |-> peak.date,
              peak_cost |-> PyRound(peak.cost, 2),
              days_until_peak |-> DaysUntilPeak(peak.date, day)],
           recommended_action |-> RecommendedAction(alert_level)])

(***************************************************************************)
(* LocalProductionService.analyze                                          *)
(***************************************************************************)
NdviScore(ndvi) ==
    IF FGe(ndvi, F0_6) THEN [impact |-> "positive", score |-> F0_8]
    ELSE IF FGe(ndvi, F0_4) THEN [impact |-> "neutral", score |-> F0_5]
    ELSE [impact |-> "negative", score |-> F0_2]

RainScore(rainfall) ==
    IF FLe(FNeg50, rainfall) /\ FLe(rainfall, F50)
    THEN [impact |-> "positive", score |-> F0_8]
    ELSE IF FLe(FNeg100, rainfall) /\ FLe(rainfall, F100)
    THEN [impact |-> "neutral", score |-> F0_5]
    ELSE [impact |-> "negative", score |-> F0_2]

\* seasonal_scores.get(seasonal_factor, 0.5)
SeasonScore(seasonal_factor) ==
    CASE seasonal_factor = "planting" -> F0_5
      [] seasonal_factor = "growing" -> F0_7
      [] seasonal_factor = "harvest" -> F0_9
      [] OTHER -> F0_5

\* the weighted sum with the weights of NDVI and rainfall exchanged
OverallScoreSwapped(ndvi_score, rain_score, season_score) ==
    FAdd(FAdd(FMul(ndvi_score, F0_35), FMul(rain_score, F0_45)),
         FMul(season_score, F0_20))

OverallScore(ndvi_score, rain_score, season_score) ==
    FAdd(FAdd(FMul(ndvi_score, F0_45), FMul(rain_score, F0_35)),
         FMul(season_score, F0_20))

Outlook(overall_score) ==
    IF FGe(overall_score, F0_65) THEN "Good"
    ELSE IF FGe(overall_score, F0_4) THEN "Medium"
    ELSE "Weak"

YieldChange(overall_score) ==
    LET d == FSub(overall_score, F0_5)
    IN  IF FGe(overall_score, F0_65) THEN PyRound(FMul(d, F30), 1)
        ELSE IF FGe(overall_score, F0_4) THEN PyRound(FMul(d, F20), 1)
        ELSE PyRound(FMul(d, F40), 1)

\* analyze(region_id, commodity_id, environmental_data, seasonal_factor,
\* reference_date); u is the draw of np.random.uniform(0, 0.2)
LocalProductionAnalyze(region_id, commodity_id, environmental_data, seasonal_factor, reference_date, u) ==
    LET ndvi   == NdviScore(environmental_data.ndvi_index)
        rain   == RainScore(environmental_data.rainfall_anomaly)
        season == SeasonScore(seasonal_factor)
        overall_score == OverallScore(ndvi.score, rain.score, season)
    IN  Return(
          [region_id |-> region_id,
           commodity_id |-> commodity_id,
           production_outlook |-> Outlook(overall_score),
           reliability_score |-> PyRound(FAdd(F0_7, u), 2),
           impact_factors |->
             << [factor |-> "ndvi_index", impact |-> ndvi.impact,
                 weight |-> F0_45],
                [factor |-> "rainfall_anomaly", impact |-> rain.impact,
                 weight |-> F0_35],
                [factor |-> "seasonal_factor",
                 impact |-> IF season = F0_5 THEN "neutral" ELSE "positive",
                 weight |-> F0_20] >>,
           expected_yield_change_pct |-> YieldChange(overall_score)])

(***************************************************************************)
(* CompetitiveHealthService.analyze                                        *)
(***************************************************************************)
MarginPressure(gross_margin) ==
    IF FGe(gross_margin, F15) THEN "Low"
    ELSE IF FGe(gross_margin, F10) THEN "Moderate"
    ELSE IF FGe(gross_margin, F5) THEN "High"
    ELSE "Critical"

\* the position with an index of exactly 105 counted as Advantaged
CompetitivePositionInclusive(competitor_index) ==
    IF FGe(competitor_index, F105) THEN "Advantaged"
    ELSE IF FGe(competitor_index, F95) THEN "Neutral"
    ELSE "Disadvantaged"

CompetitivePosition(competitor_index) ==
    IF FGt(competitor_index, F105) THEN "Advantaged"
    ELSE IF FGe(competitor_index, F95) THEN "Neutral"
    ELSE "Disadvantaged"

\* the recommendation with an index of exactly 100 counted as higher
PricingRecommendationAtParity(pressure, local_price, competitor_index, np) ==
    IF pressure \in {"High", "Critical"}
    THEN IF FGe(competitor_index, F100)
         THEN [action |-> "increase_prices",
               target_price |-> RoundAs(np, FMul(local_price, F1_05), 2),
               rationale |->
                 "Competitor prices higher; opportunity to improve margins"]
         ELSE [action |-> "hold_prices",
               target_price |-> local_price,
               rationale |->
                 "Competitor prices expected to rise; maintain position"]
    ELSE [action |-> "maintain_strategy",
          target_price |-> local_price,
          rationale |-> "Current pricing optimal for market conditions"]

PricingRecommendation(pressure, local_price, competitor_index, np) ==
    IF pressure \in {"High", "Critical"}
    THEN IF FGt(competitor_index, F100)
         THEN [action |-> "increase_prices",
               target_price |-> RoundAs(np, FMul(local_price, F1_05), 2),
               rationale |->
                 "Competitor prices higher; opportunity to improve margins"]
         ELSE [action |-> "hold_prices",
               target_price |-> local_price,
               rationale |->
                 "Competitor prices expected to rise; maintain position"]
    ELSE [action |-> "maintain_strategy",
          target_price |-> local_price,
          rationale |-> "Current pricing optimal for market conditions"]

\* analyze(commodity_id, pricing_data, market_context).  np as for
\* EarlyWarningAnalyze: the coordinator's prices are numpy.float64 scalars.
CompetitiveHealthAnalyze(commodity_id, pricing_data, np) ==
    LET local_price      == pricing_data.local_market_price
        landed_cost      == pricing_data.landed_cost
        competitor_index == pricing_data.competitor_price_index
        spread           == FSub(local_price, landed_cost)
        gross_margin     == FMul(FDiv(FSub(local_price, landed_cost), local_price),
                                 F100)
        pressure         == MarginPressure(gross_margin)
    IN  IF local_price = Zero
        THEN Raise(IF np THEN "non-finite" ELSE "ZeroDivisionError")
        ELSE Return(
          [commodity_id |-> commodity_id,
           usd_spread_price_market |-> RoundAs(np, spread, 2),
           margin_pressure_level |-> pressure,
           gross_margin_pct |-> RoundAs(np, gross_margin, 1),
           competitive_position |-> CompetitivePosition(competitor_index),
           pricing_recommendation |->
             PricingRecommendation(pressure, local_price, competitor_index, np)])

(***************************************************************************)
(* The API server of src/main.py: configuration, store and authentication  *)
(* of api/middleware/security.py.  Header values, tokens and paths are     *)
(* strings, modelled as sequences of characters.                           *)
(***************************************************************************)
StartsWith(s, p) == Len(s) >= Len(p) /\ SubSeq(s, 1, Len(p)) = p

\* s[i:][:n] for a slice within or beyond the end of s
Slice(s, i, n) == SubSeq(s, i + 1, Min(Len(s), i + n))

Str_Bearer_ == <<"B", "e", "a", "r", "e", "r", " ">>

Str_v1 == <<"/", "v", "1", "/">>

sk_haeel_prod_2024 == <<"s", "k", "-", "h", "a", "e", "e", "l", "-", "p", "r", "o", "d", "-", "2", "0", "2", "4">>

sk_haeel_test_2024 == <<"s", "k", "-", "h", "a", "e", "e", "l", "-", "t", "e", "s", "t", "-", "2", "0", "2", "4">>

sk_haeel_admin_2024 == <<"s", "k", "-", "h", "a", "e", "e", "l", "-", "a", "d", "m", "i", "n", "-", "2", "0", "2", "4">>

\* APIConfig.VALID_TOKENS
VALID_TOKENS ==
    (sk_haeel_prod_2024 :> [name |-> "Production Client", rate_limit |-> 100])
    @@ (sk_haeel_test_2024 :> [name |-> "Test Client", rate_limit |-> 200])
    @@ (sk_haeel_admin_2024 :> [name |-> "Admin Client", rate_limit |-> 500])

Path_root == <<"/">>

Path_health == <<"/", "h", "e", "a", "l", "t", "h">>

Path_forecast_cost == <<"/", "v", "1", "/", "s", "u", "p", "p", "l", "y", "-", "m", "a", "r", "k", "e", "t", "/", "f", "o", "r", "e", "c", "a", "s", "t", "/", "c", "o", "s", "t">>

Path_early_warning == <<"/", "v", "1", "/", "s", "u", "p", "p", "l", "y", "-", "m", "a", "r", "k", "e", "t", "/", "a", "l", "e", "r", "t", "s", "/", "e", "a", "r", "l", "y", "-", "w", "a", "r", "n", "i", "n", "g">>

Path_local_production == <<"/", "v", "1", "/", "s", "u", "p", "p", "l", "y", "-", "m", "a", "r", "k", "e", "t", "/", "o", "u", "t", "l", "o", "o", "k", "/", "l", "o", "c", "a", "l", "-", "p", "r", "o", "d", "u", "c", "t", "i", "o", "n">>

Path_competitive_health == <<"/", "v", "1", "/", "s", "u", "p", "p", "l", "y", "-", "m", "a", "r", "k", "e", "t", "/", "m", "a", "r", "k", "e", "t", "/", "c", "o", "m", "p", "e", "t", "i", "t", "i", "v", "e", "-", "h", "e", "a", "l", "t", "h">>

Path_strategy_summary == <<"/", "v", "1", "/", "s", "u", "p", "p", "l", "y", "-", "m", "a", "r", "k", "e", "t", "/", "s", "t", "r", "a", "t", "e", "g", "y", "/", "s", "u", "m", "m", "a", "r", "y">>

\* APIConfig.RATE_LIMITS
RATE_LIMITS ==
    (Path_forecast_cost :> 100)
    @@ (Path_early_warning :> 200)
    @@ (Path_local_production :> 50)
    @@ (Path_competitive_health :> 100)
    @@ (Path_strategy_summary :> 30)

\* APIConfig.RATE_LIMITS.get(endpoint, 100)
RateLimitOf(endpoint) ==
    IF endpoint \in DOMAIN RATE_LIMITS THEN RATE_LIMITS[endpoint] ELSE 100

\* APIConfig.CACHE_TTL
CACHE_TTL ==
    (Path_forecast_cost :> 3600)
    @@ (Path_local_production :> 21600)
    @@ (Path_strategy_summary :> 86400)

\* the routes of the app: two of its own and the five of the routers
OpenPaths == {Path_root, Path_health}

RouterPaths == DOMAIN RATE_LIMITS

\* the seconds of a window of get_rate_limit_bucket
WindowSeconds == 60

\* the bucket of key at the reading now of time.time(): created, or reset
\* once its window has expired
BucketAt(buckets, key, now) ==
    IF key \notin DOMAIN buckets THEN [count |-> 0, window_start |-> now]
    ELSE IF now - buckets[key].window_start > WindowSeconds
    THEN [count |-> 0, window_start |-> now]
    ELSE buckets[key]

\* rate_limit_buckets after get_rate_limit_bucket(key)
GetRateLimitBucket(buckets, key, now) ==
    IF key \in DOMAIN buckets
    THEN [buckets EXCEPT ![key] = BucketAt(buckets, key, now)]
    ELSE (key :> BucketAt(buckets, key, now)) @@ buckets

\* no Authorization header
NoHeader == <<>>

\* client_id of RateLimitMiddleware.dispatch
ClientId(auth_header, host) ==
    IF StartsWith(auth_header, Str_Bearer_)
    THEN Slice(Slice(auth_header, 7, Len(auth_header)), 0, 16)
    ELSE host

\* bucket_key = f"{client_id}:{endpoint}"
BucketKey(client_id, endpoint) == client_id \o <<":">> \o endpoint

\* the position of the first space of s, or 0
RECURSIVE FirstSpace(_, _)
FirstSpace(s, i) ==
    IF i > Len(s) THEN 0 ELSE IF s[i] = " " THEN i ELSE FirstSpace(s, i + 1)

UpperLetters ==
    <<"A", "B", "C", "D", "E", "F", "G", "H", "I", "J", "K", "L", "M", "N",
      "O", "P", "Q", "R", "S", "T", "U", "V", "W", "X", "Y", "Z">>

LowerLetters ==
    <<"a", "b", "c", "d", "e", "f", "g", "h", "i", "j", "k", "l", "m", "n",
      "o", "p", "q", "r", "s", "t", "u", "v", "w", "x", "y", "z">>

\* str.lower() on ASCII
LowerStr(s) ==
    [i \in 1..Len(s) |->
       IF \E j \in 1..26 : UpperLetters[j] = s[i]
       THEN LowerLetters[CHOOSE j \in 1..26 : UpperLetters[j] = s[i]]
       ELSE s[i]]

Str_bearer == <<"b", "e", "a", "r", "e", "r">>

\* fastapi.security.HTTPBearer(auto_error=False) on the Authorization header:
\* the credentials of a bearer scheme, or None
NoCredentials == [none |-> TRUE, credentials |-> <<>>]

HTTPBearer(auth_header) ==
    LET sp == FirstSpace(auth_header, 1)
    IN  IF sp <= 1 \/ sp = Len(auth_header) THEN NoCredentials
        ELSE IF LowerStr(SubSeq(auth_header, 1, sp - 1)) # Str_bearer
        THEN NoCredentials
        ELSE [none |-> FALSE,
              credentials |-> SubSeq(auth_header, sp + 1, Len(auth_header))]

\* verify_token checking only that the request carries credentials
VerifyTokenAnyToken(credentials) ==
    IF credentials.none THEN 401 ELSE 200

\* verify_token: the status it raises, or 200 with the client of the token
VerifyToken(credentials) ==
    IF credentials.none THEN 401
    ELSE IF credentials.credentials \notin DOMAIN VALID_TOKENS THEN 401
    ELSE 200

(***************************************************************************)
(* State.                                                                  *)
(***************************************************************************)
VARIABLES
    today,              \* the day date.today() gives
    call,               \* the last direct call of a service and its outcome
    prev,               \* an earlier direct call a caller kept the outcome of
    pc,                 \* where the dashboard request stands
    request,            \* the dashboard request being served
    stage_result,       \* the outcome of each stage call of the coordinator
    log,                \* the stage calls of the coordinator and how each ended
    result,             \* what get_dashboard_data gave its caller
    response,           \* what the dashboard route answered
    clock,              \* the reading of time.time(), in seconds
    rate_limit_buckets, \* store.rate_limit_buckets
    cache,              \* store.cache
    tasks,              \* the requests the server is processing
    running,            \* the task the event loop is running, or 0
    last,               \* the last answer the server gave
    calls,              \* per bucket, the calls of increment_rate_limit in
                        \* its window
    watch,              \* a stretch of 60 seconds and the requests forwarded
                        \* in it
    arrivals,           \* the requests received
    advances            \* the times the clock was read to have advanced

api_vars ==
    << clock, rate_limit_buckets, cache, tasks, running, last, calls, watch,
       arrivals, advances >>

service_vars ==
    << today, call, prev, pc, request, stage_result, log, result, response >>

vars == << service_vars, api_vars >>

coordinator_vars == << pc, request, stage_result, log, result, response >>

\* the first day of the modelled period and the number of midnights it spans
Day0 == 739000

MaxTicks == 1

NotRun == [kind |-> "none", value |-> NoValue, exc |-> "-"]

NoCall == [svc |-> "none", args |-> NoValue, day |-> 0, out |-> NotRun]

NoRequest == [commodity_id |-> "-", reference_date |-> 0, end_date |-> 0]

\* the stages of get_dashboard_data, in the order of its calls
Stages == <<"cost", "warning", "production", "health", "strategy">>

StageSet == {Stages[i] : i \in 1..Len(Stages)}

\* the requests the server processes at once
MaxTasks == 2

Tasks == 1..MaxTasks

\* an empty dict
NoBuckets == [k \in {} |-> 0]

NoHttpRequest == [method |-> "-", path |-> <<>>, auth |-> NoHeader,
               host |-> <<>>, body |-> 0]

IdleTask == [pc |-> "idle", req |-> NoHttpRequest, key |-> <<>>, at |-> 0,
             seen |-> 0, count |-> 0]

NoAnswer == [status |-> 0, req |-> NoHttpRequest, key |-> <<>>, at |-> 0,
             count |-> 0, ran |-> FALSE, x_cache |-> "-"]

NoWatch == [on |-> FALSE, key |-> <<>>, path |-> <<>>, start |-> 0, n |-> 0]

Init ==
    /\ today = Day0
    /\ call = NoCall
    /\ prev = NoCall
    /\ pc = "idle"
    /\ request = NoRequest
    /\ stage_result = [stage \in StageSet |-> NotRun]
    /\ log = <<>>
    /\ result = NotRun
    /\ response = NotRun
    /\ clock = 0
    /\ rate_limit_buckets = NoBuckets
    /\ cache = NoBuckets
    /\ tasks = [t \in Tasks |-> IdleTask]
    /\ running = 0
    /\ last = NoAnswer
    /\ calls = NoBuckets
    /\ watch = NoWatch
    /\ arrivals = 0
    /\ advances = 0

\* a route calls service svc with args, today, and the call ends as out
Call(svc, args, out) ==
    /\ call = NoCall
    /\ call' = [svc |-> svc, args |-> args, day |-> today, out |-> out]
    /\ UNCHANGED << today, prev, coordinator_vars, api_vars >>

\* midnight passes
Tick ==
    /\ today < Day0 + MaxTicks
    /\ today' = today + 1
    /\ UNCHANGED << call, prev, coordinator_vars, api_vars >>

(***************************************************************************)
(* Direct calls of StrategicSummaryService.generate, as the route          *)
(* /strategy/summary makes them: every field is taken from the request,    *)
(* whose schema fixes the enumerations and leaves the numbers free.        *)
(***************************************************************************)
Commodities == {"wheat", "sugar", "oil"}

Trends == {"rising", "falling", "stable"}

AlertLevels == {"Low", "Medium", "High"}

Outlooks == {"Weak", "Medium", "Good"}

Pressures == {"Low", "Moderate", "High", "Critical"}

Positions == {"Advantaged", "Neutral", "Disadvantaged"}

UrgencyLevels == {"low", "medium", "high"}

\* main_cost_driver is a free string: a label with Shipping and one without
DriverInputs == {Index_Cost_Shipping, Index_Stress_Chain_Supply}

\* current_inventory_days around the 30-day rule
InventoryInputs == {29, 30}

\* reliability_score is an unbounded float in the request schema
ReliabilityInputs == {Dec(-100, 100), Dec(85, 100), Dec(130, 100)}

GenerateInputs ==
    { [commodity_id |-> "wheat",
       api_outputs |->
         [cost_forecast |->
            [avg_predicted_cost |-> F100,
             trend_direction |-> trend,
             main_cost_driver |-> driver],
          early_warning |->
            [supply_alert_level |-> alert,
             expected_increase_pct |-> F10],
          local_production |->
            [production_outlook |-> outlook,
             reliability_score |-> reliability],
          competitive_health |->
            [margin_pressure_level |-> pressure,
             competitive_position |-> "Neutral"]],
       business_context |->
         [current_inventory_days |-> inventory,
          budget_available |-> F100,
          urgency_level |-> urgency]] :
        trend \in Trends, alert \in AlertLevels, outlook \in Outlooks,
        driver \in DriverInputs, pressure \in Pressures,
        inventory \in InventoryInputs, urgency \in UrgencyLevels,
        reliability \in ReliabilityInputs }

CallGenerate ==
    \E args \in GenerateInputs :
       Call("generate", args,
            Generate(args.commodity_id, args.api_outputs,
                     args.business_context, today))

\* the caller has taken the outcome; the service is called again
CallReturns ==
    /\ call # NoCall
    /\ call' = NoCall
    /\ UNCHANGED << today, prev, coordinator_vars, api_vars >>

NextStrategy == CallGenerate \/ CallReturns \/ Tick

SpecStrategy == Init /\ [][NextStrategy]_vars

(***************************************************************************)
(* Direct calls of the four stage services, as the routes /cost/predict,   *)
(* /early-warning/analyze, /local-production/outlook and                   *)
(* /competitive-health/analyze make them with the fields of the request.   *)
(* The services check none of their arguments; the numbers are Python     *)
(* floats, of either sign where the request schema puts no bound.          *)
(***************************************************************************)
\* simulated market indicators: one where the shipping index is the largest
\* driver and one where the price anomaly is
MarketInputs ==
    { [global_price_anomaly |-> FromInt(20), shipping_index |-> F100,
       insurance_risk_index |-> F0_3, supply_chain_stress_index |-> F50],
      [global_price_anomaly |-> F95, shipping_index |-> FromInt(85),
       insurance_risk_index |-> F0_4, supply_chain_stress_index |-> F50] }

\* draws of np.random.normal(0, 20), three standard deviations either side
NoiseInputs == {Dec(-60125, 1000), Dec(60125, 1000)}

\* a commodity the base cost table lacks stands for every other string
CommodityInputs == Commodities \cup {"rice"}

\* date ranges: end before start, a single day, just below and at one step,
\* three steps, and one whose stepping leaves the range of date
RangeInputs ==
    { [start_date |-> Day0, end_date |-> Day0 - 1],
      [start_date |-> Day0, end_date |-> Day0 - 45],
      [start_date |-> Day0, end_date |-> Day0],
      [start_date |-> Day0, end_date |-> Day0 + 29],
      [start_date |-> Day0, end_date |-> Day0 + 30],
      [start_date |-> Day0 + 1, end_date |-> Day0 + 95],
      [start_date |-> MaxOrdinal - 20, end_date |-> MaxOrdinal - 5] }

PredictInputs ==
    UNION { { [commodity_id |-> commodity_id,
               start_date |-> range.start_date,
               end_date |-> range.end_date,
               market_indicators |-> market_indicators,
               noise |-> noise] :
                commodity_id \in CommodityInputs,
                market_indicators \in MarketInputs,
                noise \in [1..NumSteps(range.start_date, range.end_date)
                             -> NoiseInputs] } :
            range \in RangeInputs }

\* the most steps of a forecast: long enough for the confidence to reach its
\* floor and stay on it
MaxSteps == 10

\* a long range, under the same draw at every step
LongPredictInputs ==
    { [commodity_id |-> "wheat",
       start_date |-> Day0,
       end_date |-> Day0 + 30 * (MaxSteps - 1),
       market_indicators |-> market_indicators,
       noise |-> [k \in 1..MaxSteps |-> eps]] :
        market_indicators \in MarketInputs, eps \in NoiseInputs }

CallPredict ==
    \E args \in PredictInputs \cup LongPredictInputs :
       Call("predict", args,
            Predict(args.commodity_id, args.start_date, args.end_date,
                    args.market_indicators, args.noise))

\* the longest cost series given to the early warning
MaxSeries == 3

\* costs around the thresholds of a baseline of 100
CostInputs == {F100, FromInt(110), FromInt(115), FromInt(120), FromInt(125)}

\* the series start in the past, on Day0 or in the future and step by 30 days
SeriesStartInputs == {Day0 - 45, Day0, Day0 + 10}

SeriesInputs ==
    UNION { { [i \in 1..n |-> [date |-> d0 + 30 * (i - 1), cost |-> costs[i]]] :
                costs \in [1..n -> CostInputs], d0 \in SeriesStartInputs } :
            n \in 0..MaxSeries }

\* two points given latest first: the route keeps the order of the request
UnorderedSeriesInputs ==
    { << [date |-> Day0 + 40, cost |-> c1], [date |-> Day0 + 10, cost |-> c2] >> :
        c1 \in CostInputs, c2 \in CostInputs }

BaselineInputs == {Zero, F100}

ThresholdInputs ==
    { NoThresholds, [none |-> FALSE, medium_pct |-> F5, high_pct |-> F20] }

EarlyWarningInputs ==
    { [commodity_id |-> "wheat",
       predicted_costs |-> predicted_costs,
       historical_baseline |->
         [avg_cost_30d |-> baseline, avg_cost_90d |-> baseline,
          std_dev |-> F50],
       thresholds |-> thresholds] :
        predicted_costs \in SeriesInputs \cup UnorderedSeriesInputs,
        baseline \in BaselineInputs,
        thresholds \in ThresholdInputs }

CallEarlyWarning ==
    \E args \in EarlyWarningInputs :
       Call("early_warning", args,
            EarlyWarningAnalyze(args.commodity_id, args.predicted_costs,
                                args.historical_baseline, args.thresholds,
                                FALSE, today))

\* ndvi_index and rainfall_anomaly on and off the band edges
NdviInputs == {F0_3, F0_4, F0_6, F0_7}

RainfallInputs == {FromInt(-120), FNeg100, Zero, F0_5, F50, FromInt(120)}

\* seasonal_factor: the three seasons of the table and a string it lacks (the
\* service takes any str and falls back to 0.5)
SeasonInputs == {"planting", "growing", "harvest", "dormant"}

\* draws of np.random.uniform(0, 0.2)
UniformInputs == {Zero, Dec(1, 10), Dec(199, 1000)}

LocalProductionInputs ==
    { [region_id |-> "YEM-01",
       commodity_id |-> "wheat",
       environmental_data |->
         [ndvi_index |-> ndvi, rainfall_anomaly |-> rainfall,
          temperature_anomaly |-> Zero],
       seasonal_factor |-> seasonal_factor,
       u |-> u] :
        ndvi \in NdviInputs, rainfall \in RainfallInputs,
        seasonal_factor \in SeasonInputs, u \in UniformInputs }

\* the route passes date.today() as the reference date
CallLocalProduction ==
    \E args \in LocalProductionInputs :
       Call("local_production", args,
            LocalProductionAnalyze(args.region_id, args.commodity_id,
                                   args.environmental_data,
                                   args.seasonal_factor, today, args.u))

\* local_market_price: negative, zero, and positive around the margin bands of
\* a landed cost of 100 (margins 0, 5, 10 and 15 per cent and between)
PriceInputs ==
    { FNeg100, Zero, F100, Dec(10500, 95), F105, FromInt(110), Dec(1000, 9),
      FromInt(115), Dec(10000, 85), FromInt(120) }

LandedCostInputs == {FromInt(90), F100}

CompetitorInputs == {FromInt(94), F95, F100, F105, FromInt(106), FromInt(110)}

CompetitiveHealthInputs ==
    { [commodity_id |-> "wheat",
       pricing_data |->
         [local_market_price |-> local_price,
          landed_cost |-> landed_cost,
          competitor_price_index |-> competitor_index]] :
        local_price \in PriceInputs, landed_cost \in LandedCostInputs,
        competitor_index \in CompetitorInputs }

CallCompetitiveHealth ==
    \E args \in CompetitiveHealthInputs :
       Call("competitive_health", args,
            CompetitiveHealthAnalyze(args.commodity_id, args.pricing_data,
                                     FALSE))

NextStages ==
    \/ CallPredict
    \/ CallEarlyWarning
    \/ CallLocalProduction
    \/ CallCompetitiveHealth
    \/ CallReturns
    \/ Tick

SpecStages == Init /\ [][NextStages]_vars

(***************************************************************************)
(* Repeated calls: the same routes called again, by any caller, any number *)
(* of calls and midnights later.  A caller may keep the outcome of its     *)
(* call in prev, where a later call is compared with it.                   *)
(***************************************************************************)
\* a global price far below the usual one (USD/ton, unbounded in the schema)
SlumpMarket ==
    [global_price_anomaly |-> FromInt(-2000), shipping_index |-> F100,
     insurance_risk_index |-> F0_3, supply_chain_stress_index |-> F50]

\* one, three and MaxSteps steps
RepeatRangeInputs == {Day0, Day0 + 60, Day0 + 30 * (MaxSteps - 1)}

\* every draw 0, and a three-step forecast that draws high first and low last
RepeatPredictInputs ==
    { [commodity_id |-> "wheat",
       start_date |-> Day0,
       end_date |-> end_date,
       market_indicators |-> market_indicators,
       noise |-> [k \in 1..NumSteps(Day0, end_date) |-> Zero]] :
        end_date \in RepeatRangeInputs,
        market_indicators \in MarketInputs \cup {SlumpMarket} }
    \cup
    { [commodity_id |-> "wheat",
       start_date |-> Day0,
       end_date |-> Day0 + 60,
       market_indicators |-> market_indicators,
       noise |-> << Dec(60125, 1000), Zero, Dec(-60125, 1000) >>] :
        market_indicators \in MarketInputs }

RepeatPredict ==
    \E args \in RepeatPredictInputs :
       Call("predict", args,
            Predict(args.commodity_id, args.start_date, args.end_date,
                    args.market_indicators, args.noise))

RepeatEarlyWarningInputs ==
    { [commodity_id |-> "wheat",
       predicted_costs |-> << [date |-> d0, cost |-> FromInt(120)] >>,
       historical_baseline |->
         [avg_cost_30d |-> F100, avg_cost_90d |-> F100, std_dev |-> F50],
       thresholds |-> NoThresholds] :
        d0 \in SeriesStartInputs }

RepeatEarlyWarning ==
    \E args \in RepeatEarlyWarningInputs :
       Call("early_warning", args,
            EarlyWarningAnalyze(args.commodity_id, args.predicted_costs,
                                args.historical_baseline, args.thresholds,
                                FALSE, today))

RepeatLocalProductionInputs ==
    { args \in LocalProductionInputs :
        /\ args.environmental_data.ndvi_index = F0_7
        /\ args.environmental_data.rainfall_anomaly = Zero
        /\ args.seasonal_factor \in {"growing", "harvest"} }

RepeatLocalProduction ==
    \E args \in RepeatLocalProductionInputs :
       Call("local_production", args,
            LocalProductionAnalyze(args.region_id, args.commodity_id,
                                   args.environmental_data,
                                   args.seasonal_factor, Day0, args.u))

RepeatCompetitiveHealthInputs ==
    { args \in CompetitiveHealthInputs :
        /\ args.pricing_data.local_market_price \in {F100, FromInt(110)}
        /\ args.pricing_data.competitor_price_index \in {F100, FromInt(106)} }

RepeatCompetitiveHealth ==
    \E args \in RepeatCompetitiveHealthInputs :
       Call("competitive_health", args,
            CompetitiveHealthAnalyze(args.commodity_id, args.pricing_data,
                                     FALSE))

RepeatGenerateInputs ==
    { args \in GenerateInputs :
        /\ args.api_outputs.cost_forecast.main_cost_driver = Index_Cost_Shipping
        /\ args.api_outputs.local_production.production_outlook = "Medium"
        /\ args.api_outputs.local_production.reliability_score = Dec(85, 100)
        /\ args.api_outputs.competitive_health.margin_pressure_level = "Low"
        /\ args.business_context.current_inventory_days = 30
        /\ args.business_context.urgency_level = "medium" }

RepeatGenerate ==
    \E args \in RepeatGenerateInputs :
       Call("generate", args,
            Generate(args.commodity_id, args.api_outputs,
                     args.business_context, today))

\* the caller keeps the outcome; the service is called again
CallKept ==
    /\ call # NoCall
    /\ prev' = call
    /\ call' = NoCall
    /\ UNCHANGED << today, coordinator_vars, api_vars >>

NextRepeat ==
    \/ RepeatPredict
    \/ RepeatEarlyWarning
    \/ RepeatLocalProduction
    \/ RepeatCompetitiveHealth
    \/ RepeatGenerate
    \/ CallKept
    \/ CallReturns
    \/ Tick

SpecRepeat == Init /\ [][NextRepeat]_vars

(***************************************************************************)
(* The dashboard: the route POST /api/supply-market/dashboard and the      *)
(* coordinator SupplyMarketDashboardService.get_dashboard_data, one action *)
(* per stage call.  A stage call ends as the stage's code ends it on the   *)
(* coordinator's arguments or, when `fault` is drawn, raises: the stage    *)
(* services are objects of the coordinator and any call of one may raise   *)
(* (MemoryError, a replaced service).                                      *)
(***************************************************************************)
\* the statement that follows the call of a stage in get_dashboard_data with
\* stage 5 called right after stage 2
NextStageStrategyEarly(stage) ==
    CASE stage = "cost"       -> "warning"
      [] stage = "warning"    -> "strategy"
      [] stage = "strategy"   -> "production"
      [] stage = "production" -> "health"
      [] stage = "health"     -> "format"

\* the statement that follows the call of a stage in get_dashboard_data
NextStage(stage) ==
    CASE stage = "cost"       -> "warning"
      [] stage = "warning"    -> "production"
      [] stage = "production" -> "health"
      [] stage = "health"     -> "strategy"
      [] stage = "strategy"   -> "format"

\* a coordinator that catches the exception of a stage and returns a dashboard
\* of what it has
AfterStageCatching(outcome, next) ==
    IF outcome.kind = "raise"
    THEN [pc |-> "returned",
          result |-> Return([success |-> FALSE, error |-> outcome.exc])]
    ELSE [pc |-> next, result |-> NotRun]

\* where get_dashboard_data goes after a stage call: there is no try around
\* the calls, so an exception of the stage leaves get_dashboard_data
AfterStage(outcome, next) ==
    IF outcome.kind = "raise"
    THEN [pc |-> "raised", result |-> outcome]
    ELSE [pc |-> next, result |-> NotRun]

\* the call of a stage that ends as outcome
StageCall(stage, outcome) ==
    /\ pc = stage
    /\ \E out \in {outcome} :
          LET after == AfterStage(out, NextStage(stage))
          IN  /\ stage_result' = [stage_result EXCEPT ![stage] = out]
              /\ log' = log \o << <<"invoke", stage>>,
                                  <<IF out.kind = "return" THEN "complete"
                                    ELSE "fail", stage>> >>
              /\ pc' = after.pc
              /\ result' = after.result
    /\ UNCHANGED << today, call, prev, request, response,
                 api_vars >>

Faulty(fault, outcome) == IF fault THEN Raise("Exception") ELSE outcome

\* the dashboard request: wheat, sugar or oil (two of them drawn), and no
\* date, a date that strptime rejects, or a date
DashboardCommodities == {"wheat", "oil"}

\* reference dates: past, near, and two so late that a date computed from
\* them leaves the range of date (in predict, in get_dashboard_data)
DashboardDates == {Day0 - 100, Day0 + 3, MaxOrdinal - 100, MaxOrdinal - 50}

\* request.date: absent, a string strptime rejects, or the string of a date
DateInputs ==
    { [kind |-> "none", date |-> 0], [kind |-> "malformed", date |-> 0] }
      \cup { [kind |-> "date", date |-> d] : d \in DashboardDates }

\* {} and [] of the error answer
EmptyDict == <<>>

\* the answer of the route when get_dashboard_data or strptime raised e
ErrorResponse(commodity_id, e) ==
    [success |-> FALSE, commodity_id |-> commodity_id, kpis |-> EmptyDict,
     cost_predictions |-> <<>>, risk_breakdown |-> EmptyDict,
     recommendation |-> "", action_items |-> <<>>, error |-> e]

\* the route takes the request and calls get_dashboard_data, which fixes the
\* reference date and the end date
DashboardRequest ==
    /\ pc \in {"idle", "responded"}
    /\ \E commodity_id \in DashboardCommodities,
          date \in DateInputs :
          LET reference_date == IF date.kind = "none" THEN today ELSE date.date
          IN  /\ stage_result' = [stage \in StageSet |-> NotRun]
              /\ log' = <<>>
              /\ IF date.kind = "malformed"
                 THEN /\ request' = [commodity_id |-> commodity_id,
                                     reference_date |-> 0, end_date |-> 0]
                      /\ result' = NotRun
                      /\ response' = Return(ErrorResponse(commodity_id,
                                                          "ValueError"))
                      /\ pc' = "responded"
                 ELSE IF reference_date + 90 > MaxOrdinal
                 THEN /\ request' = [commodity_id |-> commodity_id,
                                     reference_date |-> reference_date,
                                     end_date |-> 0]
                      /\ result' = Raise("OverflowError")
                      /\ response' = NotRun
                      /\ pc' = "raised"
                 ELSE /\ request' = [commodity_id |-> commodity_id,
                                     reference_date |-> reference_date,
                                     end_date |-> reference_date + 90]
                      /\ result' = NotRun
                      /\ response' = NotRun
                      /\ pc' = "cost"
    /\ UNCHANGED << today, call, prev,
                 api_vars >>

cost_result == stage_result["cost"]

warning_result == stage_result["warning"]

production_result == stage_result["production"]

health_result == stage_result["health"]

strategy_result == stage_result["strategy"]

\* the draws of the steps of a forecast: far either side at every step, or a
\* little below at the first step and a little above from then on
DashboardNoise(n) ==
    [1..n -> NoiseInputs]
      \cup {[k \in 1..n |-> IF k = 1 THEN FromInt(-25) ELSE FromInt(25)]}

\* stage 1 on the simulated market indicators
CostStep ==
    \E market_indicators \in MarketInputs,
       noise \in DashboardNoise(NumSteps(request.reference_date,
                                          request.end_date)),
       fault \in BOOLEAN :
       StageCall("cost",
                 Faulty(fault, Predict(request.commodity_id,
                                       request.reference_date,
                                       request.end_date, market_indicators,
                                       noise)))

\* predicted_costs and historical_baseline as get_dashboard_data derives them
DashboardSeries(cost) ==
    [k \in 1..Len(cost.predictions) |->
       [date |-> cost.predictions[k].date,
        cost |-> cost.predictions[k].predicted_landed_cost_usd]]

\* the baseline with the average predicted cost itself as the 90-day average
DashboardBaselineAtAverage(cost) ==
    [avg_cost_30d |-> FMul(cost.summary.avg_cost, F0_95),
     avg_cost_90d |-> cost.summary.avg_cost,
     std_dev |-> F50]

DashboardBaseline(cost) ==
    [avg_cost_30d |-> FMul(cost.summary.avg_cost, F0_95),
     avg_cost_90d |-> FMul(cost.summary.avg_cost, F0_9),
     std_dev |-> F50]

\* stage 2: the avg_cost of stage 1 is a numpy scalar, so the baseline is
WarningStep ==
    \E fault \in BOOLEAN :
       StageCall("warning",
                 Faulty(fault, EarlyWarningAnalyze(
                                 request.commodity_id,
                                 DashboardSeries(cost_result.value),
                                 DashboardBaseline(cost_result.value),
                                 NoThresholds, TRUE, today)))

\* draws of np.random.uniform(0.4, 0.8) for ndvi_index
DashboardNdvi == {F0_45, F0_7}

\* stage 3 on simulated environmental data in the growing season
ProductionStep ==
    \E ndvi \in DashboardNdvi, fault \in BOOLEAN :
       StageCall("production",
                 Faulty(fault, LocalProductionAnalyze(
                                 "YEM-01", request.commodity_id,
                                 [ndvi_index |-> ndvi,
                                  rainfall_anomaly |-> F10,
                                  temperature_anomaly |-> Zero],
                                 "growing", request.reference_date,
                                 Dec(1, 10))))

\* draws of np.random.uniform(95, 110) for competitor_price_index
DashboardCompetitor == {FromInt(97), FromInt(108)}

DashboardPricing(cost, competitor_index) ==
    [local_market_price |-> FMul(cost.summary.avg_cost, F1_15),
     landed_cost |-> cost.summary.avg_cost,
     competitor_price_index |-> competitor_index]

\* stage 4: the prices are numpy scalars
HealthStep ==
    \E competitor_index \in DashboardCompetitor, fault \in BOOLEAN :
       StageCall("health",
                 Faulty(fault, CompetitiveHealthAnalyze(
                                 request.commodity_id,
                                 DashboardPricing(cost_result.value,
                                                  competitor_index),
                                 TRUE)))

DashboardApiOutputs ==
    [cost_forecast |->
       [avg_predicted_cost |-> cost_result.value.summary.avg_cost,
        trend_direction |-> cost_result.value.summary.trend_direction,
        main_cost_driver |-> cost_result.value.predictions[1].main_cost_driver],
     early_warning |->
       [supply_alert_level |-> warning_result.value.supply_alert_level,
        expected_increase_pct |->
          warning_result.value.expected_increase_percentage],
     local_production |->
       [production_outlook |-> production_result.value.production_outlook,
        reliability_score |-> production_result.value.reliability_score],
     competitive_health |->
       [margin_pressure_level |-> health_result.value.margin_pressure_level,
        competitive_position |-> health_result.value.competitive_position]]

\* the business context with the inventory at the 30 days of the rule
DashboardBusinessContextStocked ==
    [current_inventory_days |-> 30,
     budget_available |-> FromInt(500000),
     urgency_level |-> "medium"]

DashboardBusinessContext ==
    [current_inventory_days |-> 25,
     budget_available |-> FromInt(500000),
     urgency_level |-> "medium"]

\* stage 5 on the results of the four
StrategyStep ==
    \E fault \in BOOLEAN :
       StageCall("strategy",
                 Faulty(fault, Generate(request.commodity_id,
                                        DashboardApiOutputs,
                                        DashboardBusinessContext, today)))

\* the dashboard get_dashboard_data returns
Dashboard ==
    [success |-> TRUE,
     commodity_id |-> request.commodity_id,
     kpis |->
       [avg_predicted_cost |-> cost_result.value.summary.avg_cost,
        supply_alert_level |-> warning_result.value.supply_alert_level,
        production_outlook |-> production_result.value.production_outlook,
        competitive_position |-> health_result.value.competitive_position,
        trend_direction |-> cost_result.value.summary.trend_direction,
        confidence_score |-> production_result.value.reliability_score],
     cost_predictions |->
       [k \in 1..Len(cost_result.value.predictions) |->
          [date |-> cost_result.value.predictions[k].date,
           cost |-> cost_result.value.predictions[k].predicted_landed_cost_usd,
           confidence |-> cost_result.value.predictions[k].confidence_score,
           driver |-> cost_result.value.predictions[k].main_cost_driver]],
     risk_breakdown |-> strategy_result.value.data.risk_breakdown,
     recommendation |-> strategy_result.value.data.recommendation,
     action_items |-> strategy_result.value.data.action_items]

FormatStep ==
    /\ pc = "format"
    /\ result' = Return(Dashboard)
    /\ pc' = "returned"
    /\ UNCHANGED << today, call, prev, request, stage_result, log, response,
                 api_vars >>

\* the route returns the dashboard, or its error answer on any exception
RouteRespond ==
    /\ pc \in {"returned", "raised"}
    /\ response' = IF result.kind = "return" THEN result
                   ELSE Return(ErrorResponse(request.commodity_id, result.exc))
    /\ pc' = "responded"
    /\ UNCHANGED << today, call, prev, request, stage_result, log, result,
                 api_vars >>

Next ==
    \/ DashboardRequest
    \/ CostStep
    \/ WarningStep
    \/ ProductionStep
    \/ HealthStep
    \/ StrategyStep
    \/ FormatStep
    \/ RouteRespond
    \/ Tick

Spec == Init /\ [][Next]_vars

(***************************************************************************)
(* The API server: a request passes RateLimitMiddleware.dispatch, then the *)
(* inner application (RequestLoggingMiddleware, the router and its         *)
(* verify_token dependency, the endpoint).  CachingMiddleware is not among *)
(* the middleware src/main.py adds.  The server runs the requests as tasks *)
(* of one event loop: a task keeps the loop from one await to the next.    *)
(***************************************************************************)
\* the middleware of app, outermost first
Middleware ==
    <<"CORSMiddleware", "RateLimitMiddleware", "RequestLoggingMiddleware">>

Installed(m) == \E i \in 1..Len(Middleware) : Middleware[i] = m

\* a token VALID_TOKENS lacks, alike sk_haeel_prod_2024 in its first 16
\* characters
sk_haeel_prod_2025 == <<"s", "k", "-", "h", "a", "e", "e", "l", "-", "p", "r", "o", "d", "-", "2", "0", "2", "5">>

Host_1 == <<"1", "0", ".", "0", ".", "0", ".", "1">>

\* the most requests a bucket counts in a window: two above the lowest limit
MaxCount == 32

\* the most requests the server receives while it runs two at once
MaxRequests == 3

\* the most advances of the clock, and their lengths in seconds
MaxAdvances == 2

AdvanceInputs == {2, 59, 60}

\* the event loop lets task t run: no other task is between two awaits
ScheduledPreemptively(t) == TRUE

Scheduled(t) == running \in {0, t}

\* store.get_cache(key) at the reading now
GetCache(entries, key, now) ==
    IF key \in DOMAIN entries /\ now < entries[key].expires_at
    THEN [none |-> FALSE, data |-> entries[key].data]
    ELSE [none |-> TRUE, data |-> 0]

\* CachingMiddleware.dispatch: the answer from the cache, if it gives one
CachedAnswer(entries, req, now) ==
    IF req.path \notin DOMAIN CACHE_TTL \/ req.method # "POST"
    THEN [none |-> TRUE, data |-> 0]
    ELSE GetCache(entries, <<req.path, req.body>>, now)

\* RateLimitMiddleware.dispatch down to get_rate_limit_bucket, and the read
\* of bucket["count"] in increment_rate_limit
Dispatch(t, req) ==
    /\ tasks[t].pc = "idle"
    /\ Scheduled(t)
    /\ IF ~StartsWith(req.path, Str_v1)
       THEN /\ tasks' = [tasks EXCEPT ![t] =
                           [IdleTask EXCEPT !.pc = "call_next", !.req = req,
                                            !.at = clock]]
            /\ running' = 0
            /\ UNCHANGED << rate_limit_buckets, calls >>
       ELSE LET key == BucketKey(ClientId(req.auth, req.host), req.path)
                buckets == GetRateLimitBucket(rate_limit_buckets, key, clock)
            IN  /\ rate_limit_buckets' = buckets
                /\ calls' = IF key \in DOMAIN rate_limit_buckets
                               /\ buckets[key] = rate_limit_buckets[key]
                            THEN calls
                            ELSE IF key \in DOMAIN calls
                            THEN [calls EXCEPT ![key] = 0]
                            ELSE (key :> 0) @@ calls
                /\ tasks' = [tasks EXCEPT ![t] =
                               [IdleTask EXCEPT !.pc = "put", !.req = req,
                                                !.key = key, !.at = clock,
                                                !.seen = buckets[key].count]]
                /\ running' = t
    /\ UNCHANGED << service_vars, clock, cache, last, watch, advances >>

\* a request of the watched bucket is forwarded within the watched stretch
Watched(key, now) ==
    IF watch.on /\ watch.key = key /\ now < watch.start + WindowSeconds
    THEN [watch EXCEPT !.n = @ + 1]
    ELSE watch

\* the request counted current_count in its window is over the limit
OverLimitInclusive(current_count, rate_limit) == current_count >= rate_limit

OverLimit(current_count, rate_limit) == current_count > rate_limit

\* the write of bucket["count"], and the rest of RateLimitMiddleware.dispatch
\* down to its answer 429 or its await of call_next
Increment(t) ==
    /\ tasks[t].pc = "put"
    /\ Scheduled(t)
    /\ LET key == tasks[t].key
           current_count == tasks[t].seen + 1
       IN  /\ rate_limit_buckets' =
                [rate_limit_buckets EXCEPT ![key].count = current_count]
           /\ calls' = [calls EXCEPT ![key] = @ + 1]
           /\ IF OverLimit(current_count, RateLimitOf(tasks[t].req.path))
              THEN /\ last' = [status |-> 429, req |-> tasks[t].req,
                               key |-> key, at |-> tasks[t].at,
                               count |-> current_count, ran |-> FALSE,
                               x_cache |-> "-"]
                   /\ tasks' = [tasks EXCEPT ![t] = IdleTask]
                   /\ watch' = watch
              ELSE /\ last' = last
                   /\ tasks' = [tasks EXCEPT ![t].pc = "call_next",
                                             ![t].count = current_count]
                   /\ watch' = Watched(key, tasks[t].at)
    /\ running' = 0
    /\ UNCHANGED << service_vars, clock, cache, arrivals, advances >>

\* the status the inner application answers req with, and whether the
\* endpoint ran
InnerAnswer(req) ==
    IF req.path \in OpenPaths THEN [status |-> 200, ran |-> TRUE]
    ELSE IF req.path \notin RouterPaths THEN [status |-> 404, ran |-> FALSE]
    ELSE IF VerifyToken(HTTPBearer(req.auth)) # 200
    THEN [status |-> 401, ran |-> FALSE]
    ELSE [status |-> 200, ran |-> TRUE]

\* call_next: the inner application answers, and dispatch returns the answer
CallNext(t) ==
    /\ tasks[t].pc = "call_next"
    /\ Scheduled(t)
    /\ LET req == tasks[t].req
           cached == IF Installed("CachingMiddleware")
                     THEN CachedAnswer(cache, req, clock)
                     ELSE [none |-> TRUE, data |-> 0]
           inner == IF cached.none THEN InnerAnswer(req)
                    ELSE [status |-> 200, ran |-> FALSE]
       IN  last' = [status |-> inner.status, req |-> req,
                    key |-> tasks[t].key, at |-> tasks[t].at,
                    count |-> tasks[t].count, ran |-> inner.ran,
                    x_cache |-> IF cached.none THEN "-" ELSE "HIT"]
    /\ tasks' = [tasks EXCEPT ![t] = IdleTask]
    /\ running' = 0
    /\ UNCHANGED << service_vars, clock, rate_limit_buckets, cache, calls,
                    watch, arrivals, advances >>

\* time.time() reads d seconds later; it is read at the start of a task's
\* run, so that time passing within the run shows in the next one
Advance ==
    /\ running = 0
    /\ advances < MaxAdvances
    /\ advances' = advances + 1
    /\ \E d \in AdvanceInputs : clock' = clock + d
    /\ UNCHANGED << service_vars, rate_limit_buckets, cache, tasks, running,
                    last, calls, watch, arrivals >>

Bearer(token) == Str_Bearer_ \o token

\* the requests of two clients with a token and of one without, to the
\* endpoint of the lowest rate limit and to /health
ClientRequestInputs ==
    { [method |-> "POST", path |-> Path_strategy_summary, auth |-> auth,
       host |-> Host_1, body |-> 1] :
        auth \in {Bearer(sk_haeel_prod_2024), Bearer(sk_haeel_prod_2025),
                  NoHeader} }
    \cup { [method |-> "GET", path |-> Path_health, auth |-> NoHeader,
            host |-> Host_1, body |-> 0] }

\* the bucket of req counts fewer than MaxCount requests in its window
BelowMaxCount(req) ==
    StartsWith(req.path, Str_v1) =>
      BucketAt(rate_limit_buckets,
               BucketKey(ClientId(req.auth, req.host), req.path),
               clock).count < MaxCount

\* the server receives one request at a time
Receive ==
    /\ \E req \in ClientRequestInputs : BelowMaxCount(req) /\ Dispatch(1, req)
    /\ UNCHANGED arrivals

Limit == \E t \in Tasks : Increment(t)

Answer == \E t \in Tasks : CallNext(t)

NextClients == Receive \/ Limit \/ Answer

SpecClients == Init /\ [][NextClients]_vars

\* the requests of one client to one endpoint and to /health, over time
WindowRequestInputs ==
    { [method |-> "POST", path |-> Path_strategy_summary,
       auth |-> Bearer(sk_haeel_prod_2024), host |-> Host_1, body |-> 1],
      [method |-> "GET", path |-> Path_health, auth |-> NoHeader,
       host |-> Host_1, body |-> 0] }

\* a stretch of 60 seconds starts, in which the forwarded requests of one
\* bucket are counted
StartWatch ==
    /\ ~watch.on
    /\ \E req \in WindowRequestInputs :
          /\ StartsWith(req.path, Str_v1)
          /\ watch' = [on |-> TRUE,
                       key |-> BucketKey(ClientId(req.auth, req.host), req.path),
                       path |-> req.path, start |-> clock, n |-> 0]
    /\ UNCHANGED << service_vars, clock, rate_limit_buckets, cache, tasks,
                    running, last, calls, arrivals, advances >>

ReceiveInWindow ==
    /\ \E req \in WindowRequestInputs : BelowMaxCount(req) /\ Dispatch(1, req)
    /\ UNCHANGED arrivals

NextWindow == ReceiveInWindow \/ Limit \/ Answer \/ Advance \/ StartWatch

SpecWindow == Init /\ [][NextWindow]_vars

\* the server receives a request while it processes others
ReceiveConcurrently ==
    /\ arrivals < MaxRequests
    /\ arrivals' = arrivals + 1
    /\ \E t \in Tasks, req \in WindowRequestInputs : Dispatch(t, req)

NextTasks == ReceiveConcurrently \/ Limit \/ Answer \/ Advance

SpecTasks == Init /\ [][NextTasks]_vars


(***************************************************************************)
(* Properties of StrategicSummaryService.generate (under SpecStrategy).    *)
(***************************************************************************)
Generated == call.svc = "generate" /\ call.out.kind = "return"

\* the inputs and the outputs of the generate call in `call`
InTrend == call.args.api_outputs.cost_forecast.trend_direction

InDriver == call.args.api_outputs.cost_forecast.main_cost_driver

InAlert == call.args.api_outputs.early_warning.supply_alert_level

InOutlook == call.args.api_outputs.local_production.production_outlook

InReliability == call.args.api_outputs.local_production.reliability_score

InPressure == call.args.api_outputs.competitive_health.margin_pressure_level

InInventory == call.args.business_context.current_inventory_days

InUrgency == call.args.business_context.urgency_level

OutData == call.out.value.data

\* the float of each number of hundredths from 0.00 to 1.00
Hundredths == [h \in 0..100 |-> Dec(h, 100)]

\* C1 as the spec states it: Buy Now if (alert High and inventory < 30) or
\* (trend rising and urgency high); otherwise Diversify Suppliers if alert High
\* and inventory >= 30; otherwise Delay.
C1_RuleAsStated ==
    Generated =>
      OutData.recommendation =
        IF \/ (InAlert = "High" /\ InInventory < 30)
           \/ (InTrend = "rising" /\ InUrgency = "high")
        THEN "Buy Now"
        ELSE IF InAlert = "High" /\ InInventory >= 30
        THEN "Diversify Suppliers"
        ELSE "Delay"

\* C1 amended: the alert level is tested first.  With alert High the
\* recommendation is Buy Now if inventory < 30 and Diversify Suppliers if
\* inventory >= 30, whatever the trend and the urgency; with another alert
\* level it is Buy Now if the trend is rising and the urgency high, else Delay.
C1_AlertDecidesFirst ==
    Generated =>
      /\ (InAlert = "High" /\ InInventory < 30)
           => OutData.recommendation = "Buy Now"
      /\ (InAlert = "High" /\ InInventory >= 30)
           => OutData.recommendation = "Diversify Suppliers"
      /\ (InAlert # "High" /\ InTrend = "rising" /\ InUrgency = "high")
           => OutData.recommendation = "Buy Now"
      /\ (InAlert # "High" /\ ~(InTrend = "rising" /\ InUrgency = "high"))
           => OutData.recommendation = "Delay"

\* the case the two rules disagree on has been computed
C1_Witness ==
    /\ Generated
    /\ InAlert = "High" /\ InInventory >= 30
    /\ InTrend = "rising" /\ InUrgency = "high"
    /\ OutData.recommendation = "Diversify Suppliers"

\* C4: each score of risk_breakdown lies in [0, 1].
C4_RiskScoresInUnitInterval ==
    Generated =>
      \A score \in { OutData.risk_breakdown.global_risk_score,
                     OutData.risk_breakdown.local_risk_score,
                     OutData.risk_breakdown.logistic_risk_score } :
          FGe(score, Zero) /\ FLe(score, F1)

\* every trigger of every score holds: the three scores are at their largest
C4_Witness ==
    /\ Generated
    /\ InTrend = "rising" /\ InAlert = "High" /\ InOutlook = "Weak"
    /\ InDriver = Index_Cost_Shipping /\ InPressure = "Critical"
    /\ OutData.risk_breakdown.global_risk_score = Hundredths[80]

\* C5: global = 0.3 (+0.3 rising) (+0.2 alert High); local = 0.2 (+0.4 Weak, or
\* +0.2 Medium); logistic = 0.2 (+0.3 driver mentions shipping) (+0.2 pressure
\* High or Critical); inventory, urgency and reliability change no score.
C5_RiskScoreTable ==
    Generated =>
      /\ OutData.risk_breakdown.global_risk_score =
           Hundredths[30 + (IF InTrend = "rising" THEN 30 ELSE 0)
                         + (IF InAlert = "High" THEN 20 ELSE 0)]
      /\ OutData.risk_breakdown.local_risk_score =
           Hundredths[20 + (IF InOutlook = "Weak" THEN 40
                            ELSE IF InOutlook = "Medium" THEN 20 ELSE 0)]
      /\ OutData.risk_breakdown.logistic_risk_score =
           Hundredths[20 + (IF InDriver = Index_Cost_Shipping THEN 30 ELSE 0)
                         + (IF InPressure \in {"High", "Critical"} THEN 20 ELSE 0)]

C5_Witness ==
    /\ Generated
    /\ InDriver = Index_Cost_Shipping /\ InPressure = "High"
    /\ InOutlook = "Medium"
    /\ OutData.risk_breakdown.logistic_risk_score = Hundredths[70]
    /\ OutData.risk_breakdown.local_risk_score = Hundredths[40]

\* C6: dominant_risk_type is the type with the largest score of
\* risk_breakdown, and of equal largest scores the first of Global, Local,
\* Logistic.
C6_DominantIsFirstLargest ==
    Generated =>
      LET g  == OutData.risk_breakdown.global_risk_score
          l  == OutData.risk_breakdown.local_risk_score
          lg == OutData.risk_breakdown.logistic_risk_score
      IN  OutData.dominant_risk_type =
            IF FGe(g, l) /\ FGe(g, lg) THEN "Global"
            ELSE IF FGe(l, lg) THEN "Local"
            ELSE "Logistic"

\* C7: confidence_level is reliability_score * 0.5 + 0.4 clamped to 1.0 and
\* lies in [0, 1], whatever the reliability_score.
C7_ConfidenceInUnitInterval ==
    Generated =>
      /\ OutData.confidence_level =
           PyRound(FMin(F1, FAdd(FMul(InReliability, F0_5), F0_4)), 2)
      /\ FGe(OutData.confidence_level, Zero)
      /\ FLe(OutData.confidence_level, F1)

(***************************************************************************)
(* Properties of the direct stage calls (under SpecStages).                *)
(***************************************************************************)
PredictCalled == call.svc = "predict"

EndBeforeStart == call.args.end_date < call.args.start_date

\* C8 as the spec states it: predict fails with InvalidRange, and returns no
\* predictions, whenever end_date is before start_date.
C8_InvalidRangeRaised ==
    (PredictCalled /\ EndBeforeStart) =>
      call.out.kind = "raise" /\ call.out.exc = "InvalidRange"

\* C8 amended: when end_date is before start_date predict does not fail; it
\* returns exactly one prediction, dated start_date.
C8_EndBeforeStartGivesOnePrediction ==
    (PredictCalled /\ EndBeforeStart) =>
      /\ call.out.kind = "return"
      /\ Len(call.out.value.predictions) = 1
      /\ call.out.value.predictions[1].date = call.args.start_date

\* predict has returned for a range that ends 45 days before it starts
C8_Witness ==
    /\ PredictCalled
    /\ call.args.end_date = call.args.start_date - 45
    /\ call.out.kind = "return"
    /\ Len(call.out.value.predictions) = 1

\* C11: for every range with end_date >= start_date predict returns
\* floor((end_date - start_date) / 30) + 1 predictions, dated
\* start_date + 30 * i in increasing order, none after end_date.
C11_OnePredictionPerStep ==
    (PredictCalled /\ ~EndBeforeStart) =>
      /\ call.out.kind = "return"
      /\ Len(call.out.value.predictions) =
           ((call.args.end_date - call.args.start_date) \div 30) + 1
      /\ \A k \in 1..Len(call.out.value.predictions) :
            /\ call.out.value.predictions[k].date =
                 call.args.start_date + 30 * (k - 1)
            /\ call.out.value.predictions[k].date <= call.args.end_date

\* C12: the confidence of period i (from 0) is max(0.6, 0.95 - 0.05 * i): it
\* never increases from one period to the next and never falls below 0.6.
C12_ConfidenceNonIncreasing ==
    (PredictCalled /\ call.out.kind = "return") =>
      \A k \in 1..Len(call.out.value.predictions) :
         /\ call.out.value.predictions[k].confidence_score =
              Hundredths[Max(60, 95 - 5 * (k - 1))]
         /\ FGe(call.out.value.predictions[k].confidence_score, Hundredths[60])
         /\ k > 1 => FLe(call.out.value.predictions[k].confidence_score,
                         call.out.value.predictions[k - 1].confidence_score)

\* a forecast long enough for the confidence to sit on its floor
C12_Witness ==
    /\ PredictCalled /\ call.out.kind = "return"
    /\ Len(call.out.value.predictions) >= 10
    /\ call.out.value.predictions[1].confidence_score = Hundredths[95]
    /\ call.out.value.predictions[8].confidence_score = Hundredths[60]
    /\ call.out.value.predictions[10].confidence_score = Hundredths[60]

EarlyWarningReturned == call.svc = "early_warning" /\ call.out.kind = "return"

\* the integer a float of the inputs stands for (a whole number below 2^15)
IntOf(x) ==
    IF x = Zero THEN 0
    ELSE (IF x.neg THEN -1 ELSE 1) * x.m[1] * 2^(x.e)

\* the largest cost of the series in `call`, as an integer
InPeakCost ==
    LET costs == {IntOf(call.args.predicted_costs[k].cost) :
                    k \in 1..Len(call.args.predicted_costs)}
    IN  CHOOSE c \in costs : \A d \in costs : d <= c

InBaseline == IntOf(call.args.historical_baseline.avg_cost_90d)

\* the thresholds in force, as integers: 10 and 15 when none are given
InMediumPct ==
    IF call.args.thresholds.none THEN 10
    ELSE IntOf(call.args.thresholds.medium_pct)

InHighPct ==
    IF call.args.thresholds.none THEN 15
    ELSE IntOf(call.args.thresholds.high_pct)

\* (peak cost - avg_cost_90d) / avg_cost_90d * 100, exact on the inputs drawn
InIncreasePct == ((InPeakCost - InBaseline) * 100) \div InBaseline

\* C13: the alert is High if increase_pct >= the high threshold, Medium if it
\* is >= the medium threshold, else Low, with increase_pct = (peak cost -
\* avg_cost_90d) / avg_cost_90d * 100 and thresholds 10 and 15 by default.
C13_AlertByThresholds ==
    EarlyWarningReturned =>
      /\ call.out.value.supply_alert_level =
           IF InIncreasePct >= InHighPct THEN "High"
           ELSE IF InIncreasePct >= InMediumPct THEN "Medium"
           ELSE "Low"
      /\ call.out.value.expected_increase_percentage = FromInt(InIncreasePct)

\* a single point costing 1.20 times the baseline, under the default thresholds
C13_Witness ==
    /\ EarlyWarningReturned
    /\ Len(call.args.predicted_costs) = 1
    /\ InPeakCost = 120 /\ InBaseline = 100
    /\ call.args.thresholds.none
    /\ call.out.value.supply_alert_level = "High"
    /\ call.out.value.expected_increase_percentage = FromInt(20)

\* the dates of the points of the series in `call` that cost the most
InPeakDates ==
    {call.args.predicted_costs[k].date :
       k \in {j \in 1..Len(call.args.predicted_costs) :
                IntOf(call.args.predicted_costs[j].cost) = InPeakCost}}

\* C14: the peak is a point of maximum cost, and of several points of maximum
\* cost the one with the earliest date, whatever the order of the series.
C14_PeakIsEarliestMaximum ==
    EarlyWarningReturned =>
      /\ call.out.value.alert_details.peak_cost = FromInt(InPeakCost)
      /\ call.out.value.alert_details.peak_date \in InPeakDates
      /\ \A d \in InPeakDates : call.out.value.alert_details.peak_date <= d

\* C15: days_until_peak is max(0, peak date - today in days): never negative,
\* and 0 for every peak dated today or in the past.
C15_DaysUntilPeakNotNegative ==
    EarlyWarningReturned =>
      /\ call.out.value.alert_details.days_until_peak >= 0
      /\ call.out.value.alert_details.peak_date > call.day =>
           call.out.value.alert_details.days_until_peak =
             call.out.value.alert_details.peak_date - call.day
      /\ call.out.value.alert_details.peak_date <= call.day =>
           call.out.value.alert_details.days_until_peak = 0

\* a peak in the past
C15_Witness ==
    /\ EarlyWarningReturned
    /\ call.out.value.alert_details.peak_date < call.day
    /\ call.out.value.alert_details.days_until_peak = 0

LocalProductionReturned ==
    call.svc = "local_production" /\ call.out.kind = "return"

\* the band scores of the inputs in `call`, in hundredths
InNdviScore ==
    IF FGe(call.args.environmental_data.ndvi_index, F0_6) THEN 80
    ELSE IF FGe(call.args.environmental_data.ndvi_index, F0_4) THEN 50
    ELSE 20

InRainScore ==
    IF /\ FGe(call.args.environmental_data.rainfall_anomaly, FNeg50)
       /\ FLe(call.args.environmental_data.rainfall_anomaly, F50) THEN 80
    ELSE IF /\ FGe(call.args.environmental_data.rainfall_anomaly, FNeg100)
            /\ FLe(call.args.environmental_data.rainfall_anomaly, F100) THEN 50
    ELSE 20

InSeasonScore ==
    CASE call.args.seasonal_factor = "planting" -> 50
      [] call.args.seasonal_factor = "growing" -> 70
      [] call.args.seasonal_factor = "harvest" -> 90

\* the weighted sum of the three scores, in ten-thousandths
InWeightedSum == InNdviScore * 45 + InRainScore * 35 + InSeasonScore * 20

\* C16: with NDVI scored 0.8 / 0.5 / 0.2 (weight 0.45), rainfall anomaly
\* 0.8 / 0.5 / 0.2 (weight 0.35) and the season 0.5 / 0.7 / 0.9 (weight 0.20),
\* the outlook is Good if the weighted sum is >= 0.65, Medium if >= 0.4, else
\* Weak, for every combination of the bands.
C16_OutlookByWeightedSum ==
    (/\ LocalProductionReturned
     /\ call.args.seasonal_factor \in {"planting", "growing", "harvest"}) =>
      call.out.value.production_outlook =
        IF InWeightedSum >= 6500 THEN "Good"
        ELSE IF InWeightedSum >= 4000 THEN "Medium"
        ELSE "Weak"

\* ndvi 0.7, rainfall 0 and harvest: 0.8 * 0.45 + 0.8 * 0.35 + 0.9 * 0.20 = 0.82
C16_Witness ==
    /\ LocalProductionReturned
    /\ call.args.environmental_data.ndvi_index = F0_7
    /\ call.args.environmental_data.rainfall_anomaly = Zero
    /\ call.args.seasonal_factor = "harvest"
    /\ InWeightedSum = 8200
    /\ call.out.value.production_outlook = "Good"

CompetitiveHealthReturned ==
    call.svc = "competitive_health" /\ call.out.kind = "return"

InLocalPrice == call.args.pricing_data.local_market_price

InLandedCost == call.args.pricing_data.landed_cost

InCompetitorIndex == call.args.pricing_data.competitor_price_index

\* x is a whole number that IntOf reads
IsWhole(x) == x = Zero \/ (x.e >= 0 /\ Len(x.m) = 1)

\* (local price - landed cost) / local price * 100 on floats
InGrossMargin ==
    FMul(FDiv(FSub(InLocalPrice, InLandedCost), InLocalPrice), F100)

\* the band of the exact margin of whole prices p > 0 and l:
\* (p - l) / p * 100 >= b is (p - l) * 100 >= b * p
ExactPressure(p, l) ==
    IF (p - l) * 100 >= 15 * p THEN "Low"
    ELSE IF (p - l) * 100 >= 10 * p THEN "Moderate"
    ELSE IF (p - l) * 100 >= 5 * p THEN "High"
    ELSE "Critical"

\* C17: for every positive local price the gross margin is (local price -
\* landed cost) / local price * 100, the pressure is Low if the margin is
\* >= 15, Moderate if >= 10, High if >= 5, else Critical, and the position is
\* Advantaged if the competitor index is > 105, Neutral if >= 95, else
\* Disadvantaged.
C17_MarginBandsAndPosition ==
    (CompetitiveHealthReturned /\ FGt(InLocalPrice, Zero)) =>
      /\ call.out.value.gross_margin_pct = PyRound(InGrossMargin, 1)
      /\ call.out.value.margin_pressure_level =
           IF FGe(InGrossMargin, F15) THEN "Low"
           ELSE IF FGe(InGrossMargin, F10) THEN "Moderate"
           ELSE IF FGe(InGrossMargin, F5) THEN "High"
           ELSE "Critical"
      /\ (IsWhole(InLocalPrice) /\ IsWhole(InLandedCost)) =>
           call.out.value.margin_pressure_level =
             ExactPressure(IntOf(InLocalPrice), IntOf(InLandedCost))
      /\ call.out.value.competitive_position =
           IF IntOf(InCompetitorIndex) > 105 THEN "Advantaged"
           ELSE IF IntOf(InCompetitorIndex) >= 95 THEN "Neutral"
           ELSE "Disadvantaged"

\* local 100, landed 90, index 110: margin 10.0, Moderate, Advantaged
C17_Witness ==
    /\ CompetitiveHealthReturned
    /\ InLocalPrice = F100 /\ InLandedCost = FromInt(90)
    /\ InCompetitorIndex = FromInt(110)
    /\ call.out.value.gross_margin_pct = F10
    /\ call.out.value.margin_pressure_level = "Moderate"
    /\ call.out.value.competitive_position = "Advantaged"

InPricing == call.out.value.pricing_recommendation

InPressured == call.out.value.margin_pressure_level \in {"High", "Critical"}

\* C18: analyze recommends raising the price by 5% exactly when the pressure
\* is High or Critical and the competitor index is > 100 (the target is
\* local price * 1.05 in cents: the exact 105% of a whole price); with High or
\* Critical and an index <= 100 it holds at the current price; with Low or
\* Moderate it maintains the current price whatever the index.
C18_PricingRecommendation ==
    CompetitiveHealthReturned =>
      /\ InPricing.action = "increase_prices"
           <=> (InPressured /\ IntOf(InCompetitorIndex) > 100)
      /\ InPricing.action = "hold_prices"
           <=> (InPressured /\ IntOf(InCompetitorIndex) <= 100)
      /\ InPricing.action = "maintain_strategy" <=> ~InPressured
      /\ InPricing.action = "increase_prices" =>
           /\ InPricing.target_price = PyRound(FMul(InLocalPrice, F1_05), 2)
           /\ IsWhole(InLocalPrice) =>
                InPricing.target_price = Dec(IntOf(InLocalPrice) * 105, 100)
      /\ InPricing.action # "increase_prices" =>
           InPricing.target_price = InLocalPrice

\* local 110, landed 100 (margin 9.09, High), index 106: raise to 115.5
C18_Witness ==
    /\ CompetitiveHealthReturned
    /\ InLocalPrice = FromInt(110) /\ InLandedCost = F100
    /\ InCompetitorIndex = FromInt(106)
    /\ call.out.value.margin_pressure_level = "High"
    /\ InPricing.action = "increase_prices"
    /\ InPricing.target_price = Dec(1155, 10)

PredictReturned == call.svc = "predict" /\ call.out.kind = "return"

\* the whole number a bignum stands for
RECURSIVE BValue(_)
BValue(b) == IF b = <<>> THEN 0 ELSE b[1] + Base * BValue(Tail(b))

\* a cost of two decimals, in cents
CentsOf(x) ==
    LET w == PyRound(FMul(x, F100), 0)
    IN  IF w = Zero THEN 0
        ELSE (IF w.neg THEN -1 ELSE 1) * BValue(w.m) * 2^(w.e)

InFirstCents ==
    CentsOf(call.out.value.predictions[1].predicted_landed_cost_usd)

InLastCents ==
    CentsOf(call.out.value.predictions[Len(call.out.value.predictions)].predicted_landed_cost_usd)

OutTrend == call.out.value.summary.trend_direction

\* the trend is rising if the last cost is > 1.05 times the first, falling if
\* it is < 0.95 times the first, else stable
C19_TrendByRatio ==
    PredictReturned =>
      OutTrend = IF InLastCents * 100 > InFirstCents * 105 THEN "rising"
                ELSE IF InLastCents * 100 < InFirstCents * 95 THEN "falling"
                ELSE "stable"

\* with every draw 0, the same arguments give the same trend again
C19_SameOnRecomputation ==
    ( /\ PredictReturned
      /\ prev.svc = "predict" /\ prev.out.kind = "return"
      /\ call.args = prev.args
      /\ \A k \in DOMAIN call.args.noise : call.args.noise[k] = Zero )
    => OutTrend = prev.out.value.summary.trend_direction

\* a forecast of a single point is stable
C19_SinglePointStable ==
    (PredictReturned /\ Len(call.out.value.predictions) = 1)
      => OutTrend = "stable"

\* C19: the summary trend of predict is rising if the last predicted cost is
\* > 1.05 times the first, falling if it is < 0.95 times the first, else
\* stable; with the perturbation fixed to 0 the classification is the same on
\* every re-computation with identical inputs, and a single-point forecast is
\* always stable.
C19_TrendClassification ==
    /\ C19_TrendByRatio
    /\ C19_SameOnRecomputation
    /\ C19_SinglePointStable

\* the arguments a caller passes: the draw of local_production is not one
ExplicitArgs(c) ==
    IF c.svc = "local_production"
    THEN [region_id |-> c.args.region_id,
          commodity_id |-> c.args.commodity_id,
          environmental_data |-> c.args.environmental_data,
          seasonal_factor |-> c.args.seasonal_factor]
    ELSE c.args

\* C20: two calls of EarlyWarningService.analyze, LocalProductionService.analyze,
\* CompetitiveHealthService.analyze or StrategicSummaryService.generate with
\* identical arguments return identical results, whatever the date, the
\* random draws and the calls in between.
C20_StagesArePure ==
    ( /\ call.svc \in {"early_warning", "local_production",
                       "competitive_health", "generate"}
      /\ prev.svc = call.svc
      /\ ExplicitArgs(prev) = ExplicitArgs(call) )
    => call.out = prev.out

\* C9: analyze fails with EmptySeries whenever the predicted cost series is
\* empty, and not with a generic exception.
C9_EmptySeriesRaised ==
    (call.svc = "early_warning" /\ call.args.predicted_costs = <<>>) =>
      call.out.kind = "raise" /\ call.out.exc = "EmptySeries"

\* C10: analyze fails with InvalidPrice whenever local_market_price is zero or
\* negative; it returns no margin, pressure level or pricing recommendation
\* for such a price and divides by no zero price.
C10_InvalidPriceRaised ==
    (/\ call.svc = "competitive_health"
     /\ FLe(call.args.pricing_data.local_market_price, Zero)) =>
      call.out.kind = "raise" /\ call.out.exc = "InvalidPrice"

(***************************************************************************)
(* Properties of the dashboard (under Spec).                               *)
(***************************************************************************)
\* stage has completed within the first n entries of the log
Completed(stage, n) == \E j \in 1..n : log[j] = <<"complete", stage>>

FourStages == {"cost", "warning", "production", "health"}

\* C2: the strategy stage is invoked only after the cost, warning, production
\* and health stages have all completed, and the warning stage only after the
\* cost stage has completed; this holds of every invocation in the log and of
\* the invocation the coordinator is about to make.
C2_StrategyAfterFourStages ==
    /\ \A i \in 1..Len(log) :
          /\ log[i] = <<"invoke", "strategy">>
               => \A stage \in FourStages : Completed(stage, i - 1)
          /\ log[i] = <<"invoke", "warning">> => Completed("cost", i - 1)
    /\ pc = "strategy" => \A stage \in FourStages : Completed(stage, Len(log))
    /\ pc = "warning" => Completed("cost", Len(log))

\* the strategy stage has been invoked and has completed
C2_Witness ==
    /\ pc = "format"
    /\ Len(log) = 10
    /\ log[9] = <<"invoke", "strategy">>
    /\ log[10] = <<"complete", "strategy">>

\* C3: when a stage has failed, get_dashboard_data has ended with the
\* exception of that stage and with no dashboard, no later stage has a result,
\* and the route that called it answers with its error answer, which carries
\* the exception and no dashboard field.
C3_StageFailureSurfaces ==
    \A i \in 1..Len(Stages) :
       stage_result[Stages[i]].kind = "raise" =>
         /\ pc \in {"raised", "responded"}
         /\ result = stage_result[Stages[i]]
         /\ result.kind # "return"
         /\ \A j \in (i + 1)..Len(Stages) : stage_result[Stages[j]] = NotRun
         /\ pc = "responded" =>
              response = Return(ErrorResponse(request.commodity_id,
                                              stage_result[Stages[i]].exc))

\* the health stage has failed after three stages that returned, and the route
\* has answered
C3_Witness ==
    /\ pc = "responded"
    /\ cost_result.kind = "return"
    /\ warning_result.kind = "return"
    /\ production_result.kind = "return"
    /\ health_result.kind = "raise"
    /\ strategy_result = NotRun
    /\ response.value.success = FALSE


\* every predicted cost of stage 1 is positive
PositiveCosts ==
    \A k \in 1..Len(cost_result.value.predictions) :
       FGt(cost_result.value.predictions[k].predicted_landed_cost_usd, Zero)

\* C29: get_dashboard_data never reports supply_alert_level Low when the
\* predicted costs are positive: the increase it computes over its baseline
\* of 0.90 times the average predicted cost is at least the medium threshold
\* of 10, and the level is Medium or High, in the stage result and in the
\* dashboard it returns.
C29_DashboardAlertNeverLow ==
    /\ (warning_result.kind = "return" /\ PositiveCosts) =>
         /\ warning_result.value.supply_alert_level \in {"Medium", "High"}
         /\ FGe(warning_result.value.expected_increase_percentage, F10)
    /\ (result.kind = "return" /\ PositiveCosts) =>
         result.value.kpis.supply_alert_level \in {"Medium", "High"}

\* the dashboard is returned with the level Medium on positive costs
C29_Witness ==
    /\ result.kind = "return"
    /\ PositiveCosts
    /\ result.value.kpis.supply_alert_level = "Medium"

\* C30: get_dashboard_data returns the recommendation Buy Now exactly when
\* its supply_alert_level is High and Delay otherwise, and never Diversify
\* Suppliers, whatever the trend.
C30_DashboardRecommendation ==
    /\ strategy_result.kind = "return" =>
         strategy_result.value.data.recommendation =
           IF warning_result.value.supply_alert_level = "High"
           THEN "Buy Now" ELSE "Delay"
    /\ result.kind = "return" =>
         /\ result.value.recommendation =
              IF result.value.kpis.supply_alert_level = "High"
              THEN "Buy Now" ELSE "Delay"
         /\ result.value.recommendation # "Diversify Suppliers"

\* the dashboard is returned with a rising trend, the level Medium and Delay
C30_Witness ==
    /\ result.kind = "return"
    /\ result.value.kpis.trend_direction = "rising"
    /\ result.value.kpis.supply_alert_level = "Medium"
    /\ result.value.recommendation = "Delay"


\* the bearer token of a request, <<>> if it carries none
TokenOf(req) == HTTPBearer(req.auth).credentials

\* C21: the rate allowed to a client is the rate limit of its bearer token
\* (100, 200 and 500 requests per minute) on every /v1 endpoint: a request
\* with a valid token is answered 429 only once the count of its bucket
\* exceeds that token's rate_limit.
C21_TokenRateLimit ==
    (last.status = 429 /\ TokenOf(last.req) \in DOMAIN VALID_TOKENS)
      => last.count > VALID_TOKENS[TokenOf(last.req)].rate_limit


\* C22: for each client and each /v1 endpoint the rate limiter forwards at
\* most rate_limit requests to the handler in any interval of 60 seconds:
\* the requests of a bucket forwarded within 60 seconds of any moment number
\* at most the rate limit of its endpoint.
C22_AtMostLimitPerMinute ==
    watch.on => watch.n <= RateLimitOf(watch.path)


Answered == last.status # 0

ValidToken(req) == TokenOf(req) \in DOMAIN VALID_TOKENS

\* the endpoints run only for a valid token, and / and /health for anyone
OnlyValidTokensServed ==
    /\ last.ran => (last.req.path \in OpenPaths \/ ValidToken(last.req))
    /\ (Answered /\ last.req.path \in OpenPaths) =>
         (last.status = 200 /\ last.ran)

\* the original statement: every request to a /v1/supply-market endpoint
\* without a valid token is answered 401 and no service runs
C23_UnauthorizedAnswered401 ==
    /\ OnlyValidTokensServed
    /\ (Answered /\ last.req.path \in RouterPaths /\ ~ValidToken(last.req)) =>
         (last.status = 401 /\ ~last.ran)

\* C23: a request reaches a service handler only if it carries a bearer token
\* that is a key of VALID_TOKENS, while / and /health need no token; a request
\* to a /v1/supply-market endpoint with no credentials or an unknown token
\* runs no service and is answered 401 by verify_token if the rate limiter
\* forwards it, and 429 by the rate limiter if its bucket is over the limit.
C23_UnauthorizedNeverServed ==
    /\ OnlyValidTokensServed
    /\ (Answered /\ last.req.path \in RouterPaths /\ ~ValidToken(last.req)) =>
         /\ ~last.ran
         /\ last.status =
              IF last.count > RateLimitOf(last.req.path) THEN 429 ELSE 401

\* a request with an unknown token has been answered 401
C23_Witness ==
    /\ last.status = 401
    /\ last.req.auth = Bearer(sk_haeel_prod_2025)
    /\ ~last.ran


\* task t takes the step CallNext
AnswersNow(t) == tasks[t].pc = "call_next" /\ tasks'[t].pc = "idle"

\* C24: for an endpoint with a configured CACHE_TTL, a POST whose body is
\* identical to that of a POST to the same endpoint answered 200 before it,
\* less than the TTL earlier, is answered from the cache with the header
\* X-Cache: HIT, and the endpoint does not run again.
C24_RepeatedPostServedFromCache ==
    [][ \A t \in Tasks :
          ( /\ AnswersNow(t)
            /\ last.status = 200
            /\ last.req = tasks[t].req
            /\ tasks[t].req.method = "POST"
            /\ tasks[t].req.path \in DOMAIN CACHE_TTL
            /\ tasks[t].at - last.at < CACHE_TTL[tasks[t].req.path] )
          => (last'.status = 200 /\ last'.x_cache = "HIT" /\ ~last'.ran) ]_vars


\* task t was forwarded in the current window of its bucket
InCurrentWindow(t) ==
    /\ tasks[t].pc = "call_next"
    /\ tasks[t].key \in DOMAIN rate_limit_buckets
    /\ tasks[t].at >= rate_limit_buckets[tasks[t].key].window_start

\* C25: when requests of one bucket are processed concurrently no increment
\* of its counter is lost: between the runs of the tasks the count of every
\* bucket is the number of calls of increment_rate_limit in its window, and
\* the calls returned distinct values: the requests in flight of one window
\* hold distinct counts, none above the bucket's.
C25_NoLostIncrement ==
    /\ running = 0 =>
         \A key \in DOMAIN rate_limit_buckets :
            rate_limit_buckets[key].count = calls[key]
    /\ \A t1 \in Tasks, t2 \in Tasks :
          ( /\ t1 # t2
            /\ InCurrentWindow(t1) /\ InCurrentWindow(t2)
            /\ tasks[t1].key = tasks[t2].key )
          => ( /\ tasks[t1].count # tasks[t2].count
               /\ tasks[t1].count <= rate_limit_buckets[tasks[t1].key].count )

\* two requests of one bucket are in flight together, counted 1 and 2
C25_Witness ==
    /\ InCurrentWindow(1) /\ InCurrentWindow(2)
    /\ tasks[1].key = tasks[2].key
    /\ {tasks[1].count, tasks[2].count} = {1, 2}
    /\ rate_limit_buckets[tasks[1].key].count = 2


\* the step of task t out of the rate limiter, for the n-th request of the
\* window of its bucket
LimiterStep(t) ==
    (tasks[t].pc = "put" /\ tasks'[t].pc # "put") =>
      LET key == tasks[t].key
          n == calls'[key]
      IN  /\ rate_limit_buckets'[key].count = n
          /\ IF n <= RateLimitOf(tasks[t].req.path)
             THEN tasks'[t].pc = "call_next" /\ last' = last
             ELSE /\ tasks'[t].pc = "idle"
                  /\ last'.status = 429 /\ ~last'.ran
                  /\ last'.req = tasks[t].req

\* the steps of task t for a request whose path is not under /v1
OpenStep(t) ==
    /\ ( /\ tasks[t].pc = "idle" /\ tasks'[t].pc # "idle"
         /\ ~StartsWith(tasks'[t].req.path, Str_v1) )
       => ( /\ tasks'[t].pc = "call_next"
            /\ rate_limit_buckets' = rate_limit_buckets )
    /\ ( /\ tasks[t].pc = "call_next" /\ tasks'[t].pc = "idle"
         /\ ~StartsWith(tasks[t].req.path, Str_v1) )
       => ( /\ last'.status # 429 /\ last'.req = tasks[t].req
            /\ rate_limit_buckets' = rate_limit_buckets )

\* C26: within one fixed window the n-th request of a bucket on a /v1 path
\* is forwarded exactly when n is at most the endpoint's rate limit; a later
\* one is answered 429 with no endpoint run and the count of the bucket is
\* incremented all the same; a request on a path outside /v1 is forwarded
\* and answered with every bucket left as it was.
C26_FirstRateLimitForwarded ==
    [][\A t \in Tasks : LimiterStep(t) /\ OpenStep(t)]_vars

\* two requests over the limit of 30 were answered 429 in one window, and
\* the bucket counted both
C26_Witness ==
    /\ last.status = 429 /\ ~last.ran
    /\ last.count = RateLimitOf(last.req.path) + 2
    /\ last.key \in DOMAIN rate_limit_buckets
    /\ rate_limit_buckets[last.key].count = last.count
    /\ calls[last.key] = last.count


\* the advertised Retry-After of a 429 answer, in seconds
RetryAfter == 60

\* task t holds the next request of the client answered 429 last, for the
\* same bucket, received RetryAfter seconds or more after that answer
RetriesAfterWait(t) ==
    /\ last.status = 429
    /\ tasks[t].pc = "put"
    /\ tasks[t].key = last.key
    /\ tasks[t].at >= last.at + RetryAfter

\* C27: a client answered 429 at time t whose next request for the same
\* endpoint comes at t + 60 seconds or later, with nothing in between, has
\* that request admitted: it is forwarded, not answered 429.
C27_AdmittedAfterRetryAfter ==
    [][\A t \in Tasks :
          (RetriesAfterWait(t) /\ tasks'[t].pc # "put")
          => tasks'[t].pc = "call_next"]_vars


\* the count of the bucket that the requests like q are counted in
CountFor(buckets, q) ==
    LET key == BucketKey(ClientId(q.auth, q.host), q.path)
    IN  IF key \in DOMAIN buckets THEN buckets[key].count ELSE 0

\* q is sent with another Authorization header (another bearer token, or
\* none), from another address or to another endpoint than r
OtherClientOrEndpoint(r, q) ==
    r.auth # q.auth \/ r.host # q.host \/ r.path # q.path

\* C28: buckets are kept per client and per endpoint: counting a request
\* sent with one bearer token, valid or not, or with none from one address,
\* leaves the count unchanged for the requests sent with a different bearer
\* token, from a different address or to a different endpoint.
C28_BucketsPerClientAndEndpoint ==
    [][\A t \in Tasks :
          (tasks[t].pc = "put" /\ tasks'[t].pc # "put") =>
             \A q \in ClientRequestInputs :
                ( /\ StartsWith(q.path, Str_v1)
                  /\ OtherClientOrEndpoint(tasks[t].req, q) )
                => CountFor(rate_limit_buckets', q)
                     = CountFor(rate_limit_buckets, q)]_vars

=============================================================================
